---- MODULE Spec2Model ----
(***************************************************************************)
(* Model of the rishi daemon (daemon/internal/api):                        *)
(*   - the WebSocket tool RPC layer: WebSocketManager, WebSocketConnection,*)
(*     sendTextEditor*Command / sendToolCommand / handleToolResponse;      *)
(*   - the chat loop of handleChat.                                        *)
(* The two parts have their own specifications (SpecRPC, SpecChat): the    *)
(* chat loop calls the RPC layer through textEditorController and sees     *)
(* only the value or error a dispatch returns.                             *)
(***************************************************************************)
EXTENDS Integers, Naturals, Sequences, FiniteSets, TLC

(***************************************************************************)
(* Bounds of the model.                                                    *)
(***************************************************************************)
\* number of concurrent dispatches (goroutines calling sendTextEditor*Command)
NDisp == 4
\* of these, the dispatches that run while responses are being delivered
NCallers == 2
\* capacity of a session's outbound queue (256 in the program); it leaves
\* NDisp - QueueCap = 2 dispatches for the overflow and for a send after it
QueueCap == 2

Dispatches == 1..NDisp
Callers == 1..NCallers
\* the session registered first and the session that reconnects
Sessions == {"s1", "s2"}
NoSession == "none"
\* no channel: an index beyond every dispatch's channel
NoChan == NDisp + 1

(***************************************************************************)
(* Tool command protocol: the four sendTextEditor*Command functions differ *)
(* only in the command name and the element type of the response channel.  *)
(***************************************************************************)
Commands == {"view", "str_replace", "create", "insert"}
\* commands the modelled dispatches use (two of the four identical copies):
\* odd dispatches call sendTextEditorCommand, even ones
\* sendTextEditorStrReplaceCommand
DispatchCommands == {"view", "str_replace"}
CommandOf(d) == IF d % 2 = 1 THEN "view" ELSE "str_replace"
\* tool and command fields a response frame may carry: a command of the
\* text editor, or neither field (the sandbox's internal-error reply)
FrameKinds == {<<"text_editor", "view">>, <<"text_editor", "str_replace">>,
               <<"", "">>}

\* JSON values of a frame's "result" field, as decoded into interface{}: an
\* object whose content/error members are strings, absent or of another JSON
\* type, a non-object value, and null/absent (nil).
ResultNotObject == [kind |-> "string", content |-> "", error |-> ""]
ResultNil == [kind |-> "nil", content |-> "", error |-> ""]

\* The reply the sandbox stub gives to request id: a view listing, a tool
\* error, or a value that is no output object, by turns.
SandboxResult(id) ==
  CASE id % 3 = 1 -> [kind |-> "object", content |-> ToString(id), error |-> ""]
    [] id % 3 = 2 -> [kind |-> "object", content |-> "<absent>", error |-> ToString(id)]
    [] OTHER -> ResultNotObject
\* results a tool_response frame with this id may carry
FrameResults(id) == {SandboxResult(id), ResultNil}

\* json.Marshal(result) then json.Unmarshal into textEditor*Output
\* {Content string `json:"content"`; Error string `json:"error"`}:
\* an absent member leaves the zero value, a member of another JSON type or a
\* non-object value makes Unmarshal fail.
UnmarshalFails(result) ==
  \/ result.kind # "object"
  \/ result.content = "<number>"
  \/ result.error = "<number>"

Field(v) == IF v = "<absent>" THEN "" ELSE v

DecodeOutput(result) ==
  IF UnmarshalFails(result)
  THEN [content |-> "", error |-> "Failed to parse response"]
  ELSE [content |-> Field(result.content), error |-> Field(result.error)]

\* no output (a nil *textEditorViewOutput)
NoValue == [content |-> "<nil>", error |-> "<nil>"]

(***************************************************************************)
(* State of the RPC layer.                                                 *)
(***************************************************************************)
VARIABLES
  pendingRequests,  \* WebSocketManager.pendingRequests: request id -> channel
                    \* (NoChan: the id is not in the map)
  connections,      \* WebSocketManager.connections["r_tool_rpc"], or NoSession
  dpc,              \* position of each dispatch in sendTextEditor*Command
  dconn,            \* session sendToClient found for the dispatch
  dresult,          \* value the dispatch returned
  derr,             \* error the dispatch returned
  chanBuf,          \* responseChan of each dispatch: buffered values (cap 1)
  chanClosed,       \* responseChan of each dispatch: closed
  sstate,           \* session: "new", "open" (pumps running), "closed"
  sclient,          \* WebSocketConnection.client
  sendq,            \* WebSocketConnection.send: queued frames
  sendClosed,       \* WebSocketConnection.send: closed
  hpc,              \* readPump inside handleToolResponse: "idle","send","parked"
  hchan,            \* channel handleToolResponse looked up
  hval,             \* output handleToolResponse is sending
  panicked          \* a goroutine panicked: the daemon process is gone

rpcVars == <<pendingRequests, connections, dpc, dconn, dresult, derr,
             chanBuf, chanClosed, sstate, sclient, sendq, sendClosed, hpc, hchan, hval, panicked>>

\* uuid.New().String(): a fresh id per sendToolCommand call
RequestID(d) == d
RequestIDs == 1..(NDisp + 1)

InitRPC ==
  /\ pendingRequests = [i \in RequestIDs |-> NoChan]
  /\ connections = NoSession
  /\ dpc = [d \in Dispatches |-> "idle"]
  /\ dconn = [d \in Dispatches |-> NoSession]
  /\ dresult = [d \in Dispatches |-> NoValue]
  /\ derr = [d \in Dispatches |-> "none"]
  /\ chanBuf = [d \in Dispatches |-> << >>]
  /\ chanClosed = [d \in Dispatches |-> FALSE]
  /\ sstate = [s \in Sessions |-> "new"]
  /\ sclient = [s \in Sessions |-> ""]
  /\ sendq = [s \in Sessions |-> << >>]
  /\ sendClosed = [s \in Sessions |-> FALSE]
  /\ hpc = [s \in Sessions |-> "idle"]
  /\ hchan = [s \in Sessions |-> NoChan]
  /\ hval = [s \in Sessions |-> NoValue]
  /\ panicked = FALSE

(***************************************************************************)
(* State of one chat request (handleChat).                                 *)
(***************************************************************************)
\* bound on the stream events (text deltas and tool-use blocks) the
\* provider emits during one request
MaxEvents == 3

EditorTool == "str_replace_based_edit_tool"
ToolNames == {EditorTool, "other_tool"}
\* raw input of a tool-use block: JSON that does not parse, an object
\* without "command", an object with one of the four commands, an object
\* with a command the daemon does not know
ToolInputs ==
  {"unparsable", "nocommand", "view", "str_replace", "create", "insert",
   "unknown_command"}
\* the tool-use blocks the provider stream may carry
ProviderBlocks ==
  {<<EditorTool, i>> : i \in ToolInputs} \cup {<<"other_tool", "view">>}

\* what the controller's call into the RPC layer returned
InvokeOutcomes == {"ok", "tool_error", "timeout", "not_connected"}

VARIABLES
  cpc,          \* position of handleChat: "start", "rejected", "loop",
                \* "stream", "dispatch", "done", "failed"
  msgs,         \* msgs: the provider history
  out,          \* NDJSON events written to the response, in order
  message,      \* message.Content: blocks accumulated from the stream
  bi,           \* index of the block the dispatch loop is at
  bstep,        \* position inside one tool-use block: "request", "invoke",
                \* "complete"
  response,     \* response of the current tool-use block
  toolResults,  \* toolResults of the current turn
  nCalls,       \* number of Messages.NewStreaming calls made
  emitted,      \* number of tool-use blocks the provider emitted (fresh ids)
  calls,        \* history: per provider call, what had been written and
                \* appended when it was opened
  invocations,  \* history: controller invocations, in order
  turns         \* history: len(toolResults) at the end of each turn

chatVars == <<cpc, msgs, out, message, bi, bstep, response, toolResults,
              nCalls, emitted, calls, invocations, turns>>

(***************************************************************************)
(* State of the outbound side of a session (writePump and its socket).     *)
(***************************************************************************)
\* bound on the keepalive pings one session writes
MaxPings == 1

VARIABLES
  wire,         \* what writePump has written to the socket, in order
  wexited,      \* writePump has returned (its deferred conn.Close() ran)
  enq           \* history: frames sendMessage placed on c.send, in order

wireVars == <<wire, wexited, enq>>

InitWire ==
  /\ wire = [s \in Sessions |-> << >>]
  /\ wexited = [s \in Sessions |-> FALSE]
  /\ enq = [s \in Sessions |-> << >>]

(***************************************************************************)
(* History of the registry: which session shook hands last.                *)
(***************************************************************************)
VARIABLES
  latest,       \* history: the session whose handshake was read last
  superseded    \* history: per dispatch, the sessions that had been replaced
                \* in the registry when the dispatch started and have not
                \* shaken hands again since

regVars == <<latest, superseded>>

InitRegistry ==
  /\ latest = NoSession
  /\ superseded = [d \in Dispatches |-> {}]

(***************************************************************************)
(* State of the sandbox's text editor: one file and one tool call.         *)
(***************************************************************************)
\* bound on the length of the file, in characters
MaxLen == 3
\* bound on the length of the new text of an insert
MaxText == 2

VARIABLES
  efile,        \* the file's content: a sequence of characters
  efile0,       \* history: the content before the call
  ecall,        \* the tool call that was made
  eout,         \* the output object the call returned
  epc           \* "ready" before the call, "done" after it

editorVars == <<efile, efile0, ecall, eout, epc>>

(***************************************************************************)
(* State of one encoding and decoding of a command object (encoding/json). *)
(***************************************************************************)
\* bound on the number of elements of a view range
MaxRange == 2

VARIABLES
  jobj,         \* the input or output object that is encoded
  jwire,        \* its JSON wire form: the members of the JSON object
  jback         \* the object decoded from the wire form

codecVars == <<jobj, jwire, jback>>

(***************************************************************************)
(* History of the frames a session's readPump has read.                    *)
(***************************************************************************)
\* bound on the frames recorded per session
MaxFrames == 3

VARIABLES
  rlog          \* per session: what each frame read so far was

frameVars == <<rlog>>

(***************************************************************************)
(* Time and the timers of a session: the read deadline of the readPump and *)
(* the ping ticker of the writePump.  Times are in seconds.                *)
(***************************************************************************)
\* bound on the time the model lets pass
MaxTime == 72
\* SetReadDeadline(time.Now().Add(60 * time.Second))
PongWait == 60
\* time.NewTicker(54 * time.Second)
PingPeriod == 54
\* the step of the clock: pings and deadlines fall on its multiples
TimeStep == PongWait - PingPeriod
NoTime == 0 - 1

VARIABLES
  now,          \* the clock
  deadline,     \* per session: the read deadline of its connection
  nextPing,     \* per session: when its ticker fires next
  pongDue,      \* per session: a ping was written that the peer can answer
  lastRead,     \* per session: when the last frame was read successfully
  lastPong,     \* per session: when the last pong was received
  expiredAt     \* per session: when the deadline ended its read, or NoTime

timerVars == <<now, deadline, nextPing, pongDue, lastRead, lastPong,
               expiredAt>>

vars == <<rpcVars, chatVars, wireVars, regVars, editorVars, codecVars,
          frameVars, timerVars>>

NoResponse == [type |-> "nil", error |-> ""]

InitChat ==
  /\ cpc = "start"
  /\ msgs = << >>
  /\ out = << >>
  /\ message = << >>
  /\ bi = 1
  /\ bstep = "request"
  /\ response = NoResponse
  /\ toolResults = << >>
  /\ nCalls = 0
  /\ emitted = 0
  /\ calls = << >>
  /\ invocations = << >>
  /\ turns = << >>

\* no tool call is made on the sandbox's file
InitEditorIdle ==
  /\ efile = << >>
  /\ efile0 = << >>
  /\ ecall = [cmd |-> "none"]
  /\ eout = [content |-> "", error |-> "", listing |-> << >>, matches |-> 0]
  /\ epc = "ready"

\* nothing is being encoded
NoObject == [type |-> "none"]
NoWire == [type |-> "none"]

InitCodecIdle ==
  /\ jobj = NoObject
  /\ jwire = NoWire
  /\ jback = NoObject

InitFrames == rlog = [s \in Sessions |-> << >>]

InitTimers ==
  /\ now = 0
  /\ deadline = [s \in Sessions |-> NoTime]
  /\ nextPing = [s \in Sessions |-> NoTime]
  /\ pongDue = [s \in Sessions |-> FALSE]
  /\ lastRead = [s \in Sessions |-> NoTime]
  /\ lastPong = [s \in Sessions |-> NoTime]
  /\ expiredAt = [s \in Sessions |-> NoTime]

InitDaemon ==
  /\ InitRPC /\ InitChat /\ InitWire /\ InitRegistry /\ InitFrames
  /\ InitTimers
Init == InitDaemon /\ InitEditorIdle /\ InitCodecIdle

(***************************************************************************)
(* Go channel operations on a dispatch's responseChan (make(chan, 1)).     *)
(***************************************************************************)
ChanCap == 1

\* sessions whose readPump is parked in a blocking send on channel c
Parked(c) == {s \in Sessions : hpc[s] = "parked" /\ hchan[s] = c}

(***************************************************************************)
(* sendTextEditor*Command and sendToolCommand, one step per lock section   *)
(* or channel operation.                                                   *)
(***************************************************************************)
\* sendToolCommand: requestID := uuid.New(); pendingRequests[requestID] = responseChan
\* (dispatches are numbered in the order in which they register)
sendToolCommand(d) ==
  /\ ~panicked
  /\ dpc[d] = "idle"
  /\ \A e \in Dispatches : e < d => dpc[e] # "idle"
  /\ pendingRequests' = [pendingRequests EXCEPT ![RequestID(d)] = d]
  /\ dpc' = [dpc EXCEPT ![d] = "registered"]
  /\ UNCHANGED <<connections, dconn, dresult, derr, chanBuf, chanClosed, sstate,
                 sclient, sendq, sendClosed, hpc, hchan, hval,
                 panicked>>

\* sendToClient: conn, exists := m.connections[clientID]
sendToClient(d) ==
  /\ ~panicked
  /\ dpc[d] = "registered"
  /\ IF connections = NoSession
     THEN /\ derr' = [derr EXCEPT ![d] = "client not connected"]
          /\ dpc' = [dpc EXCEPT ![d] = "rollback"]
          /\ UNCHANGED dconn
     ELSE /\ dconn' = [dconn EXCEPT ![d] = connections]
          /\ dpc' = [dpc EXCEPT ![d] = "sendMessage"]
          /\ UNCHANGED derr
  /\ UNCHANGED <<pendingRequests, connections, dresult, chanBuf,
                 chanClosed, sstate, sclient, sendq, sendClosed, hpc, hchan, hval, panicked>>

\* the tool_request frame sendToolCommand marshals
RequestFrame(d) == [id |-> RequestID(d), tool |-> "text_editor", command |-> CommandOf(d)]

\* sendMessage: select { case c.send <- data: default: close(c.send) }
\* (a send on a closed channel panics, also inside a select)
sendMessageUnbounded(d) ==
  /\ ~panicked
  /\ dpc[d] = "sendMessage"
  /\ sendq' = [sendq EXCEPT ![dconn[d]] = Append(@, RequestFrame(d))]
  /\ dpc' = [dpc EXCEPT ![d] = "waiting"]
  /\ UNCHANGED <<pendingRequests, connections, dconn, dresult, derr,
                 chanBuf, chanClosed, sstate, sclient, sendClosed, hpc,
                 hchan, hval, panicked>>
sendMessage(d) ==
  /\ ~panicked
  /\ dpc[d] = "sendMessage"
  /\ LET c == dconn[d] IN
       IF sendClosed[c]
       THEN /\ panicked' = TRUE
            /\ UNCHANGED <<sendq, sendClosed, dpc>>
       ELSE /\ IF Len(sendq[c]) < QueueCap
               THEN /\ sendq' = [sendq EXCEPT ![c] = Append(@, RequestFrame(d))]
                    /\ UNCHANGED sendClosed
               ELSE /\ sendClosed' = [sendClosed EXCEPT ![c] = TRUE]
                    /\ UNCHANGED sendq
            /\ dpc' = [dpc EXCEPT ![d] = "waiting"]
            /\ UNCHANGED panicked
  /\ UNCHANGED <<pendingRequests, connections, dconn, dresult, derr,
                 chanBuf, chanClosed, sstate, sclient, hpc, hchan,
                 hval>>

\* mutant of rollbackDelete: the send-failure path forgets the entry
rollbackKeepsEntry(d) == pendingRequests

\* sendToolCommand, error path: delete(m.pendingRequests, requestID)
rollbackDelete(d) == [pendingRequests EXCEPT ![RequestID(d)] = NoChan]

\* sendToolCommand, error path: the entry is deleted and err returned
rollback(d) ==
  /\ ~panicked
  /\ dpc[d] = "rollback"
  /\ pendingRequests' = rollbackDelete(d)
  /\ dpc' = [dpc EXCEPT ![d] = "closeOnError"]
  /\ UNCHANGED <<connections, dconn, dresult, derr, chanBuf, chanClosed,
                 sstate, sclient, sendq, sendClosed, hpc, hchan,
                 hval, panicked>>

\* close(responseChan): a goroutine parked in a send on it panics. The
\* dispatch holds the only receiving reference and returns right after, so a
\* value left in the buffer is lost with the channel.
closeChan(d) ==
  /\ chanClosed' = [chanClosed EXCEPT ![d] = TRUE]
  /\ chanBuf' = [chanBuf EXCEPT ![d] = << >>]
  /\ panicked' = (chanClosed[d] \/ Parked(d) # {})

\* mutant of closeOnError: the error path returns without closing the sink
closeOnErrorLeavesOpen(d) ==
  /\ ~panicked
  /\ dpc[d] = "closeOnError"
  /\ dpc' = [dpc EXCEPT ![d] = "done"]
  /\ UNCHANGED <<pendingRequests, connections, dconn, dresult, derr,
                 chanBuf, chanClosed, sstate, sclient, sendq, sendClosed,
                 hpc, hchan, hval, panicked>>

\* sendTextEditor*Command, error path: close(responseChan); return nil, err
closeOnError(d) ==
  /\ ~panicked
  /\ dpc[d] = "closeOnError"
  /\ closeChan(d)
  /\ dpc' = [dpc EXCEPT ![d] = "done"]
  /\ UNCHANGED <<pendingRequests, connections, dconn, dresult, derr,
                 sstate, sclient, sendq, sendClosed, hpc, hchan, hval>>

\* select, case response := <-responseChan. A sender parked on the full
\* channel completes its send as part of the receive.
receiveResponse(d) ==
  /\ ~panicked
  /\ dpc[d] = "waiting"
  /\ chanBuf[d] # << >>
  /\ dresult' = [dresult EXCEPT ![d] = Head(chanBuf[d])]
  /\ dpc' = [dpc EXCEPT ![d] = "cleanup"]
  /\ IF Parked(d) = {}
     THEN /\ chanBuf' = [chanBuf EXCEPT ![d] = Tail(@)]
          /\ UNCHANGED <<hpc, hchan, hval>>
     ELSE \E s \in Parked(d) :
            /\ chanBuf' = [chanBuf EXCEPT ![d] = Append(Tail(@), hval[s])]
            /\ hpc' = [hpc EXCEPT ![s] = "idle"]
            /\ hchan' = [hchan EXCEPT ![s] = NoChan]
            /\ hval' = [hval EXCEPT ![s] = NoValue]
  /\ UNCHANGED <<pendingRequests, connections, dconn, derr, chanClosed,
                 sstate, sclient, sendq, sendClosed, panicked>>

\* select, case <-time.After(30 * time.Second)
timeout(d) ==
  /\ ~panicked
  /\ dpc[d] = "waiting"
  /\ derr' = [derr EXCEPT ![d] = "request timeout"]
  /\ dpc' = [dpc EXCEPT ![d] = "cleanup"]
  /\ UNCHANGED <<pendingRequests, connections, dconn, dresult, chanBuf,
                 chanClosed, sstate, sclient, sendq, sendClosed, hpc, hchan, hval, panicked>>

\* mutant of cleanupEntry: cleanup leaves the entry in the table
cleanupKeepsEntry(d) == pendingRequests

\* cleanup(): delete(m.pendingRequests, requestID)
cleanupEntry(d) == [pendingRequests EXCEPT ![RequestID(d)] = NoChan]

\* cleanup(), first half: delete(m.pendingRequests, requestID) under requestMu
cleanupDelete(d) ==
  /\ ~panicked
  /\ dpc[d] = "cleanup"
  /\ pendingRequests' = cleanupEntry(d)
  /\ dpc' = [dpc EXCEPT ![d] = "cleanupClose"]
  /\ UNCHANGED <<connections, dconn, dresult, derr, chanBuf, chanClosed,
                 sstate, sclient, sendq, sendClosed, hpc, hchan,
                 hval, panicked>>

\* cleanup(), second half: close(responseChan); then return
cleanupClose(d) ==
  /\ ~panicked
  /\ dpc[d] = "cleanupClose"
  /\ closeChan(d)
  /\ dpc' = [dpc EXCEPT ![d] = "done"]
  /\ UNCHANGED <<pendingRequests, connections, dconn, dresult, derr,
                 sstate, sclient, sendq, sendClosed, hpc, hchan, hval>>

(***************************************************************************)
(* Sessions: HandleWebSocket, readPump, handleToolResponse, writePump.     *)
(***************************************************************************)
\* HandleWebSocket: upgrade, make(chan []byte, 256), go writePump, go readPump
HandleWebSocket(s) ==
  /\ ~panicked
  /\ sstate[s] = "new"
  /\ sstate' = [sstate EXCEPT ![s] = "open"]
  /\ UNCHANGED <<pendingRequests, connections, dpc, dconn, dresult, derr,
                 chanBuf, chanClosed, sclient, sendq, sendClosed, hpc, hchan, hval, panicked>>

\* addConnection: m.connections[clientID] = conn
addConnection(s) == connections' = s

\* removeConnection: delete(m.connections, clientID)
removeConnection(s) == connections' = NoSession

\* readPump, case "handshake": c.client = "r_tool_rpc"; addConnection
readHandshake(s) ==
  /\ ~panicked
  /\ sstate[s] = "open"
  /\ hpc[s] = "idle"
  /\ sclient' = [sclient EXCEPT ![s] = "r_tool_rpc"]
  /\ addConnection(s)
  /\ UNCHANGED <<pendingRequests, dpc, dconn, dresult, derr, chanBuf,
                 chanClosed, sstate, sendq, sendClosed, hpc, hchan,
                 hval, panicked>>

\* mutant of LookupPending: the response goes to whichever request is pending
LookupFirstPending(id) ==
  IF \E i \in RequestIDs : pendingRequests[i] # NoChan
  THEN pendingRequests[CHOOSE i \in RequestIDs : pendingRequests[i] # NoChan]
  ELSE NoChan

\* handleToolResponse: responseChan, exists := m.pendingRequests[requestID]
LookupPending(id) == pendingRequests[id]

\* mutant of TypedChanOk: the sink is used whatever tool and command say
TypedChanAnyPair(c, tool, command) == TRUE

\* handleToolResponse: the tool/command branch taken and its type assertion
\* responseChan.(chan *textEditor<Command>Output)
TypedChanOk(c, tool, command) ==
  /\ tool = "text_editor"
  /\ command \in Commands
  /\ CommandOf(c) = command

\* the id of a frame that carries none (wsMsg.ID == "")
NoRequestID == 0

\* mutant of FrameAccepted: a tool_response without result is handled
FrameAcceptedWithoutResult(id, result) == id # NoRequestID

\* readPump, case "tool_response": if wsMsg.ID != "" && wsMsg.Result != nil
FrameAccepted(id, result) == id # NoRequestID /\ result # ResultNil

\* mutant of HandlesResponses: only the registered session's responses count
HandlesResponsesWhenRegistered(s) == connections = s

\* readPump, case "tool_response": the frame is handled whether or not the
\* session has sent its handshake (c.client is not examined)
HandlesResponses(s) == sclient[s] \in {"", "r_tool_rpc"}

\* readPump, case "tool_response", and handleToolResponse up to its channel
\* send: the frame is dropped when it has no id or no result, when the id is
\* not pending, or when tool/command select no channel type.
\* id = NDisp + 1 stands for an id that was never issued.
readToolResponse(s, id, tool, command, result) ==
  /\ ~panicked
  /\ sstate[s] = "open"
  /\ hpc[s] = "idle"
  /\ LET c == LookupPending(id) IN
       IF /\ FrameAccepted(id, result)
          /\ HandlesResponses(s)
          /\ c # NoChan
          /\ TypedChanOk(c, tool, command)
       THEN /\ hpc' = [hpc EXCEPT ![s] = "send"]
            /\ hchan' = [hchan EXCEPT ![s] = c]
            /\ hval' = [hval EXCEPT ![s] = DecodeOutput(result)]
       ELSE UNCHANGED <<hpc, hchan, hval>>
  /\ UNCHANGED <<pendingRequests, connections, dpc, dconn, dresult, derr,
                 chanBuf, chanClosed, sstate, sclient, sendq, sendClosed, panicked>>

\* handleToolResponse: typedChan <- &output (a blocking send: it panics on a
\* closed channel and parks while the buffer is full)
handlerSend(s) ==
  /\ ~panicked
  /\ hpc[s] = "send"
  /\ LET c == hchan[s] IN
       IF chanClosed[c]
       THEN /\ panicked' = TRUE
            /\ UNCHANGED <<chanBuf, hpc, hchan, hval>>
       ELSE IF Len(chanBuf[c]) < ChanCap
       THEN /\ chanBuf' = [chanBuf EXCEPT ![c] = Append(@, hval[s])]
            /\ hpc' = [hpc EXCEPT ![s] = "idle"]
            /\ hchan' = [hchan EXCEPT ![s] = NoChan]
            /\ hval' = [hval EXCEPT ![s] = NoValue]
            /\ UNCHANGED panicked
       ELSE /\ hpc' = [hpc EXCEPT ![s] = "parked"]
            /\ UNCHANGED <<chanBuf, hchan, hval, panicked>>
  /\ UNCHANGED <<pendingRequests, connections, dpc, dconn, dresult, derr,
                 chanClosed, sstate, sclient, sendq, sendClosed>>

\* readPump: ReadMessage fails (peer gone, read deadline, socket closed);
\* deferred: c.conn.Close(); if c.client != "" { removeConnection(c.client) }
readPumpExit(s) ==
  /\ ~panicked
  /\ sstate[s] = "open"
  /\ hpc[s] = "idle"
  /\ sstate' = [sstate EXCEPT ![s] = "closed"]
  /\ IF sclient[s] # "" THEN removeConnection(s) ELSE UNCHANGED connections
  /\ UNCHANGED <<pendingRequests, dpc, dconn, dresult, derr, chanBuf,
                 chanClosed, sclient, sendq, sendClosed, hpc, hchan,
                 hval, panicked>>

\* writePump: message, ok := <-c.send; WriteMessage(TextMessage, message)
\* (while the socket is open; afterwards the write fails and the pump returns)
writePumpWrite(s) ==
  /\ ~panicked
  /\ sstate[s] = "open"
  /\ sendq[s] # << >>
  /\ sendq' = [sendq EXCEPT ![s] = Tail(@)]
  /\ UNCHANGED <<pendingRequests, connections, dpc, dconn, dresult, derr,
                 chanBuf, chanClosed, sstate, sclient, sendClosed, hpc,
                 hchan, hval, panicked>>

NextSessions(SS) ==
  \/ \E d \in Callers : sendToolCommand(d)
  \/ \E d \in Callers : sendToClient(d)
  \/ \E d \in Callers : sendMessage(d)
  \/ \E d \in Callers : rollback(d)
  \/ \E d \in Callers : closeOnError(d)
  \/ \E d \in Callers : receiveResponse(d)
  \/ \E d \in Callers : timeout(d)
  \/ \E d \in Callers : cleanupDelete(d)
  \/ \E d \in Callers : cleanupClose(d)
  \/ \E s \in SS : HandleWebSocket(s)
  \/ \E s \in SS : readHandshake(s)
  \/ \E s \in SS, id \in RequestIDs, k \in FrameKinds :
       \E result \in FrameResults(id) :
          readToolResponse(s, id, k[1], k[2], result)
  \/ \E s \in SS : handlerSend(s)
  \/ \E s \in SS : readPumpExit(s)
  \/ \E s \in SS : writePumpWrite(s)

\* the RPC layer with one sandbox connection
OneSession == {"s1"}
NextRPC == NextSessions(OneSession) /\ UNCHANGED <<chatVars, wireVars, regVars, editorVars, codecVars, frameVars, timerVars>>

SpecRPC == Init /\ [][NextRPC]_vars

(***************************************************************************)
(* Properties of the RPC layer.                                            *)
(***************************************************************************)
\* the dispatch has taken a value from its channel (select, first case)
GotResponse(d) == dpc[d] \in {"cleanup", "cleanupClose", "done"} /\ derr[d] = "none"
TimedOut(d) == dpc[d] = "done" /\ derr[d] = "request timeout"
NotConnected(d) == derr[d] = "client not connected"
\* some session's readPump is between two frames: it can read one now
CanReadFrame == \E s \in OneSession : sstate[s] = "open" /\ hpc[s] = "idle"

\* C1: whatever the number of dispatches in flight and the arrival order of
\* the responses, a dispatch that returns a value returns the decoded result
\* of the response frame carrying its own request id (content and error as
\* in that frame), never the payload of a frame with another id.
C1_CorrelationByRequestId ==
  \A d \in Dispatches :
    GotResponse(d) =>
      LET r == SandboxResult(RequestID(d)) IN
        /\ dresult[d] = DecodeOutput(r)
        /\ (r.kind = "object" /\ r.content \notin {"<absent>", "<number>"}
              => dresult[d].content = r.content)
        /\ (r.kind = "object" /\ r.error \notin {"<absent>", "<number>"}
              => dresult[d].error = r.error)

\* C1 witness: the second dispatch has returned its own value while the first,
\* registered earlier, is still waiting: responses arrive out of dispatch order.
C1_Witness ==
  /\ NDisp >= 2
  /\ dpc[1] = "waiting" /\ chanBuf[1] = << >>
  /\ dpc[2] = "done" /\ derr[2] = "none"
  /\ dresult[2] = DecodeOutput(SandboxResult(RequestID(2)))

\* C2: a dispatch that returns the request-timeout error has removed its own
\* pending entry and returns no value; a tool_response read afterwards for its
\* id is dropped: the step changes nothing, so the other pending requests and
\* what they receive are as if the frame had never arrived.
C2_TimeoutCleanup ==
  /\ [](\A d \in Dispatches :
          TimedOut(d) => pendingRequests[RequestID(d)] = NoChan
                         /\ dresult[d] = NoValue)
  /\ [][\A s \in Sessions, d \in Dispatches, k \in FrameKinds :
          \A result \in FrameResults(RequestID(d)) :
            (TimedOut(d) /\ readToolResponse(s, RequestID(d), k[1], k[2], result))
              => UNCHANGED rpcVars]_rpcVars

\* C2 witness: a dispatch has timed out, another is still waiting, and a
\* session is ready to read the late response.
C2_Witness ==
  \E d, e \in Dispatches :
    /\ TimedOut(d)
    /\ dpc[e] = "waiting"
    /\ CanReadFrame

\* C3: a second handleToolResponse for a request id whose caller already took
\* its value never panics: it never reaches its channel send with the sink
\* closed by the caller's cleanup.
C3_DuplicateNeverPanics ==
  \A s \in Sessions :
    (hpc[s] = "send" /\ dresult[hchan[s]] # NoValue) => ~chanClosed[hchan[s]]

\* C4: every dispatch eventually returns: a dispatch waiting for its response
\* can always still leave the wait (by its response or by the 30s timeout),
\* whatever happened to the session and the registry.
C4_WaitingDispatchCanReturn ==
  \A d \in Dispatches :
    dpc[d] = "waiting" => ENABLED (timeout(d) \/ receiveResponse(d))

\* C5: with no connection registered the dispatch fails with client not
\* connected without entering the wait, its entry is rolled back before it
\* returns, and its steps touch no other entry of the table.
C5_NotConnectedRollsBack ==
  /\ [](\A d \in Dispatches :
          NotConnected(d) =>
            /\ dpc[d] \in {"rollback", "closeOnError", "done"}
            /\ dresult[d] = NoValue
            /\ (dpc[d] # "rollback" => pendingRequests[RequestID(d)] = NoChan))
  /\ [][\A d \in Dispatches :
          /\ (dpc[d] = "registered" /\ dpc'[d] # "registered"
                /\ connections = NoSession)
               => (dpc'[d] = "rollback" /\ NotConnected(d)')
          /\ (dpc[d] = "rollback" => dpc'[d] \in {"rollback", "closeOnError"})
          /\ (dpc[d] = "closeOnError" => dpc'[d] \in {"closeOnError", "done"})
          /\ (dpc[d] \in {"registered", "rollback", "closeOnError"}
                /\ dpc'[d] # dpc[d]
               => \A i \in RequestIDs \ {RequestID(d)} :
                    pendingRequests'[i] = pendingRequests[i])]_rpcVars

\* C5 witness: a dispatch has returned client not connected while another
\* dispatch's entry is in the table.
C5_Witness ==
  \E d, e \in Dispatches :
    /\ dpc[d] = "done" /\ NotConnected(d)
    /\ pendingRequests[RequestID(d)] = NoChan
    /\ pendingRequests[RequestID(e)] # NoChan

(***************************************************************************)
(* The agentic loop of one chat request: handleChat.                       *)
(***************************************************************************)
\* the requests a client may post: method, safe_root, history roles, message
ChatRequests ==
  { [method |-> "OPTIONS", safeRoot |-> "/p", history |-> << >>, message |-> "m"],
    [method |-> "GET", safeRoot |-> "/p", history |-> << >>, message |-> "m"],
    [method |-> "POST", safeRoot |-> "", history |-> << >>, message |-> "m"],
    [method |-> "POST", safeRoot |-> "/p", history |-> << >>, message |-> "m"],
    [method |-> "POST", safeRoot |-> "/p",
     history |-> <<"user", "assistant", "tool">>, message |-> ""] }

TextMessage(role, text) ==
  [role |-> role, type |-> "text", text |-> text, id |-> 0, results |-> << >>]
\* mutant of ToolUseMessage: the ToolUse goes into the history without
\* its id
ToolUseMessageWithoutId(id) ==
  [role |-> "assistant", type |-> "tool_use", text |-> "", id |-> 0,
   results |-> << >>]
ToolUseMessage(id) ==
  [role |-> "assistant", type |-> "tool_use", text |-> "", id |-> id,
   results |-> << >>]
\* mutant of ToolResultMessage: the user message goes out without results
ToolResultMessageEmpty(results) ==
  [role |-> "user", type |-> "tool_result", text |-> "", id |-> 0,
   results |-> << >>]
ToolResultMessage(results) ==
  [role |-> "user", type |-> "tool_result", text |-> "", id |-> 0,
   results |-> results]

\* history roles other than user and assistant are ignored
RECURSIVE HistoryMessages(_)
HistoryMessages(h) ==
  IF h = << >> THEN << >>
  ELSE (IF Head(h) \in {"user", "assistant"}
          THEN <<TextMessage(Head(h), "history")>> ELSE << >>)
       \o HistoryMessages(Tail(h))

InitialMessages(req) ==
  <<TextMessage("user", "system prompt")>>
  \o HistoryMessages(req.history)
  \o (IF req.message # "" THEN <<TextMessage("user", "message")>> ELSE << >>)

Event(ev, id, name) == [ev |-> ev, id |-> id, name |-> name]
TextEvent == Event("text", 0, "")
ErrorEvent == Event("error", 0, "")
FinalEvent == Event("is_final", 0, "")

TextBlock == [type |-> "text", id |-> 0, name |-> "", input |-> ""]
ToolUseBlock(id, name, input) ==
  [type |-> "tool_use", id |-> id, name |-> name, input |-> input]

\* events the provider stream has delivered so far in this request
StreamEvents ==
  emitted + Cardinality({i \in 1..Len(out) : out[i].ev = "text"})

\* validation and history building, up to the first iteration of the loop
handleChat(req) ==
  /\ cpc = "start"
  /\ IF req.method # "POST" \/ req.safeRoot = ""
       THEN /\ cpc' = "rejected"
            /\ msgs' = msgs
       ELSE /\ cpc' = "loop"
            /\ msgs' = InitialMessages(req)
  /\ UNCHANGED <<out, message, bi, bstep, response, toolResults, nCalls,
                 emitted, calls, invocations, turns>>

\* one provider call with the history built so far
NewStreaming ==
  /\ cpc = "loop"
  /\ cpc' = "stream"
  /\ nCalls' = nCalls + 1
  /\ message' = << >>
  /\ calls' = Append(calls, [at |-> Len(out), hist |-> Len(msgs),
                             ids |-> emitted])
  /\ UNCHANGED <<msgs, out, bi, bstep, response, toolResults, emitted,
                 invocations, turns>>

\* a text delta: accumulated into the current text block and forwarded
streamTextDelta ==
  /\ cpc = "stream"
  /\ StreamEvents < MaxEvents
  /\ message' = IF message # << >> /\ message[Len(message)].type = "text"
                  THEN message ELSE Append(message, TextBlock)
  /\ out' = Append(out, TextEvent)
  /\ UNCHANGED <<cpc, msgs, bi, bstep, response, toolResults, nCalls,
                 emitted, calls, invocations, turns>>

\* a tool-use block: accumulated, nothing written
streamToolUse(name, input) ==
  /\ cpc = "stream"
  /\ StreamEvents < MaxEvents
  /\ emitted' = emitted + 1
  /\ message' = Append(message, ToolUseBlock(emitted + 1, name, input))
  /\ UNCHANGED <<cpc, msgs, out, bi, bstep, response, toolResults, nCalls,
                 calls, invocations, turns>>

\* message.Accumulate fails: an error event is written and the stream loop
\* is left with break; stream.Err() is nil, so the dispatch loop runs over
\* the blocks accumulated so far
accumulateError ==
  /\ cpc = "stream"
  /\ out' = Append(out, ErrorEvent)
  /\ cpc' = "dispatch"
  /\ bi' = 1
  /\ bstep' = "request"
  /\ toolResults' = << >>
  /\ UNCHANGED <<msgs, message, response, nCalls, emitted, calls,
                 invocations, turns>>

\* stream.Next() returns false with stream.Err() set
streamErr ==
  /\ cpc = "stream"
  /\ out' = Append(out, ErrorEvent)
  /\ cpc' = "failed"
  /\ UNCHANGED <<msgs, message, bi, bstep, response, toolResults, nCalls,
                 emitted, calls, invocations, turns>>

\* stream.Next() returns false with no error
streamEnd ==
  /\ cpc = "stream"
  /\ cpc' = "dispatch"
  /\ bi' = 1
  /\ bstep' = "request"
  /\ toolResults' = << >>
  /\ UNCHANGED <<msgs, out, message, response, nCalls, emitted, calls,
                 invocations, turns>>

(***************************************************************************)
(* The dispatch loop over the accumulated blocks.                          *)
(***************************************************************************)
\* json.Unmarshal of the raw input into textEditorInput
InputParses(input) == input # "unparsable"
\* mutant of InputCommand: an input without command is taken as a view
InputCommandDefaultsToView(input) ==
  IF input \in {"unparsable", "nocommand"} THEN "view" ELSE input
InputCommand(input) ==
  IF input \in {"unparsable", "nocommand"} THEN "" ELSE input

\* the Error field the controller puts into its output
ControllerErrorDropped(outcome) ==
  IF outcome = "tool_error" THEN "tool error" ELSE ""
ControllerError(outcome) ==
  CASE outcome = "ok" -> ""
    [] outcome = "tool_error" -> "tool error"
    [] outcome = "timeout" ->
         "Failed to communicate with R server: request timeout"
    [] outcome = "not_connected" ->
         "Failed to communicate with R server: client not connected"

\* for _, block := range message.Content
CurrentBlockReversed == message[Len(message) + 1 - bi]
CurrentBlock == message[bi]

InBlock(type) ==
  /\ cpc = "dispatch"
  /\ bi <= Len(message)
  /\ CurrentBlock.type = type

dispatchTextBlock ==
  /\ InBlock("text")
  /\ msgs' = Append(msgs, TextMessage("assistant", "reply"))
  /\ bi' = bi + 1
  /\ UNCHANGED <<cpc, out, message, bstep, response, toolResults, nCalls,
                 emitted, calls, invocations, turns>>

\* first switch on block.Name: decode the input, write the requesting
\* event for a known command
toolUseRequest ==
  /\ InBlock("tool_use")
  /\ bstep = "request"
  /\ LET b == CurrentBlock
         command == InputCommand(b.input)
     IN  IF b.name # EditorTool
           THEN /\ response' = NoResponse
                /\ bstep' = "complete"
                /\ out' = out
         ELSE IF ~InputParses(b.input)
           THEN /\ response' = [type |-> "view", error |->
                                  "Failed to parse text editor input"]
                /\ bstep' = "complete"
                /\ out' = out
         ELSE IF command = ""
           THEN /\ response' = [type |-> "view", error |->
                                  "Error: Missing required 'command' field"]
                /\ bstep' = "complete"
                /\ out' = out
         ELSE IF command \in Commands
           THEN /\ out' = Append(out, Event("requesting", b.id, command))
                /\ bstep' = "invoke"
                /\ response' = response
         ELSE /\ response' = NoResponse
              /\ bstep' = "complete"
              /\ out' = out
  /\ UNCHANGED <<cpc, msgs, message, bi, toolResults, nCalls, emitted,
                 calls, invocations, turns>>

\* the controller returns once, whatever the RPC layer answered
RetryAfterInvoke(outcome) ==
  IF outcome \in {"timeout", "not_connected"} THEN "invoke" ELSE "complete"
AfterInvoke(outcome) == "complete"

\* textEditorController.view / strReplace / create / insert
controllerInvoke(outcome) ==
  /\ InBlock("tool_use")
  /\ bstep = "invoke"
  /\ invocations' = Append(invocations,
                           [id |-> CurrentBlock.id, at |-> Len(out),
                            outcome |-> outcome])
  /\ response' = [type |-> InputCommand(CurrentBlock.input),
                  error |-> ControllerError(outcome)]
  /\ bstep' = AfterInvoke(outcome)
  /\ UNCHANGED <<cpc, msgs, out, message, bi, toolResults, nCalls, emitted,
                 calls, turns>>

\* isError: set in the branch of the response's type when Error != ""
IsErrorNever(name, resp) == FALSE
IsError(name, resp) ==
  name = EditorTool /\ resp.type # "nil" /\ resp.error # ""

\* second switch on block.Name: the completed event by response type, then
\* the ToolUse message and the user message with the turn's results so far
toolUseComplete ==
  /\ InBlock("tool_use")
  /\ bstep = "complete"
  /\ LET b == CurrentBlock
         typed == b.name = EditorTool /\ response.type # "nil"
         isError == IsError(b.name, response)
         results == Append(toolResults,
                           [id |-> b.id, content |-> response,
                            isError |-> isError])
     IN  /\ out' = IF typed
                     THEN Append(out, Event("completed", b.id, response.type))
                     ELSE out
         /\ toolResults' = results
         /\ msgs' = msgs \o <<ToolUseMessage(b.id), ToolResultMessage(results)>>
  /\ bi' = bi + 1
  /\ bstep' = "request"
  /\ response' = NoResponse
  /\ UNCHANGED <<cpc, message, nCalls, emitted, calls, invocations, turns>>

\* if len(toolResults) == 0
NoBlocks == message = << >>
NoToolResults == toolResults = << >>

\* after the last block: finish with is_final, or go round the loop
endTurn ==
  /\ cpc = "dispatch"
  /\ bi > Len(message)
  /\ turns' = Append(turns, Len(toolResults))
  /\ IF NoToolResults
       THEN /\ out' = Append(out, FinalEvent)
            /\ cpc' = "done"
       ELSE /\ out' = out
            /\ cpc' = "loop"
  /\ UNCHANGED <<msgs, message, bi, bstep, response, toolResults, nCalls,
                 emitted, calls, invocations>>

NextChatOver(requests, blocks, outcomes) ==
  \/ \E req \in requests : handleChat(req)
  \/ NewStreaming
  \/ streamTextDelta
  \/ \E b \in blocks : streamToolUse(b[1], b[2])
  \/ accumulateError
  \/ streamErr
  \/ streamEnd
  \/ dispatchTextBlock
  \/ toolUseRequest
  \/ \E outcome \in outcomes : controllerInvoke(outcome)
  \/ toolUseComplete
  \/ endTurn

\* the loop structure: a request that is rejected and one that is accepted,
\* tool-use blocks that are invoked, answered without invocation, or skipped,
\* invocations that succeed, fail in the sandbox, or time out
LoopRequests ==
  {req \in ChatRequests : req.history = << >> /\ req.method # "OPTIONS"}
LoopBlocks ==
  {<<EditorTool, "view">>, <<EditorTool, "unparsable">>,
   <<"other_tool", "view">>}
LoopOutcomes == {"ok", "tool_error", "timeout"}
NextChat == NextChatOver(LoopRequests, LoopBlocks, LoopOutcomes)

SpecChat == Init /\ [][NextChat /\ UNCHANGED <<rpcVars, wireVars, regVars, editorVars, codecVars, frameVars, timerVars>>]_vars

\* the loop over invocations that fail in the transport: the sandbox is not
\* connected, or does not answer in time
TransportBlocks == {<<EditorTool, "view">>, <<EditorTool, "create">>}
TransportOutcomes == {"timeout", "not_connected"}
NextChatTransport ==
  NextChatOver(LoopRequests, TransportBlocks, TransportOutcomes)

SpecChatTransport == Init /\ [][NextChatTransport /\ UNCHANGED <<rpcVars, wireVars, regVars, editorVars, codecVars, frameVars, timerVars>>]_vars

(***************************************************************************)
(* Properties of the agentic loop.                                         *)
(***************************************************************************)
EventsOf(ev) == {i \in 1..Len(out) : out[i].ev = ev}
ToolUseBlocks == {i \in 1..Len(message) : message[i].type = "tool_use"}
ToolUsePositions == {i \in 1..Len(msgs) : msgs[i].type = "tool_use"}
InvocationsOf(id) ==
  {k \in 1..Len(invocations) : invocations[k].id = id}
\* the input of the block reaches the controller
Invocable(b) == b.name = EditorTool /\ InputCommand(b.input) \in Commands
\* the dispatch loop of the last provider call has run to its end
TurnComplete == nCalls >= 1 /\ cpc \in {"loop", "done"}

\* C6: the output holds at most one terminal event, is_final or error, and
\* no event of any kind follows it
C6_NothingAfterTerminalEvent ==
  \A i \in 1..Len(out) :
     out[i].ev \in {"is_final", "error"} => i = Len(out)

\* C7: a provider stream error, also one raised while accumulating an
\* event, yields a single error event after which no provider call is made
\* and no tool is dispatched
C7_ErrorEventStopsTheLoop ==
  /\ Cardinality(EventsOf("error")) <= 1
  /\ \A i \in EventsOf("error") :
        /\ \A k \in 1..Len(calls) : calls[k].at < i
        /\ \A k \in 1..Len(invocations) : invocations[k].at < i

C9_BlocksHandledInEmissionOrder ==
  /\ \A p, q \in 1..Len(out) :
        /\ (out[p].id # 0 /\ out[p].id < out[q].id) => p < q
        /\ (out[p].id # 0 /\ out[p].id = out[q].id
              /\ out[p].ev = "requesting" /\ out[q].ev = "completed") => p < q
  /\ \A k \in 1..Len(invocations) :
        LET id == invocations[k].id
            at == invocations[k].at
        IN  /\ \E p \in 1..at : out[p].ev = "requesting" /\ out[p].id = id
            /\ \A p \in 1..Len(out) :
                  /\ (out[p].id = id /\ out[p].ev = "completed") => p > at
                  /\ out[p].id > id => p > at
            /\ \A l \in 1..Len(invocations) :
                  k < l => id < invocations[l].id
  /\ \A i \in ToolUsePositions :
        /\ \A j \in ToolUsePositions : i < j => msgs[i].id < msgs[j].id
        /\ i < Len(msgs)
        /\ msgs[i+1].type = "tool_result"
        /\ LET r == msgs[i+1].results
           IN  /\ r[Len(r)].id = msgs[i].id
               /\ \A a, b \in 1..Len(r) : a < b => r[a].id < r[b].id
  /\ cpc = "stream" =>
        {msgs[i].id : i \in ToolUsePositions} = 1..calls[nCalls].ids

\* two tool-use blocks of one message were invoked and the next provider
\* call is open
C9_Witness ==
  /\ cpc = "stream"
  /\ nCalls = 2
  /\ turns = <<2>>
  /\ Len(invocations) = 2
  /\ Cardinality(EventsOf("completed")) = 2

\* C10: a ToolUse block is dispatched once: no id is invoked or appended
\* twice, none that the provider did not emit, and after a turn every
\* block of the message has been handled exactly once, also when the
\* invocation failed or timed out
C10_EachToolUseDispatchedOnce ==
  /\ \A k, l \in 1..Len(invocations) :
        invocations[k].id = invocations[l].id => k = l
  /\ \A k \in 1..Len(invocations) : invocations[k].id \in 1..emitted
  /\ \A i, j \in ToolUsePositions :
        /\ msgs[i].id \in 1..emitted
        /\ msgs[i].id = msgs[j].id => i = j
  /\ TurnComplete =>
        \A n \in ToolUseBlocks :
           /\ Cardinality({i \in ToolUsePositions :
                             msgs[i].id = message[n].id}) = 1
           /\ Cardinality(InvocationsOf(message[n].id)) =
                IF Invocable(message[n]) THEN 1 ELSE 0

\* an invocation timed out, its result went into the history and the
\* request went on to its end
C10_Witness ==
  /\ cpc = "done"
  /\ \E i \in 1..Len(msgs) :
        /\ msgs[i].type = "tool_result"
        /\ \E a \in 1..Len(msgs[i].results) :
              msgs[i].results[a].content.error = ControllerError("timeout")

\* the ToolResult blocks of the history
HistoryResults ==
  UNION {{msgs[i].results[a] : a \in 1..Len(msgs[i].results)} :
           i \in 1..Len(msgs)}

\* C11: the ToolResult of a tool call has is_error = true exactly when the
\* error field of the command's output object is non-empty
C11_IsErrorIffOutputError ==
  /\ \A r \in HistoryResults : r.isError <=> r.content.error # ""
  /\ \A a \in 1..Len(toolResults) :
        toolResults[a].isError <=> toolResults[a].content.error # ""

\* the history holds a result with an empty error field and one with a
\* non-empty error field returned by the sandbox
C11_Witness ==
  /\ \E r \in HistoryResults : r.content.type = "view" /\ ~r.isError
  /\ \E r \in HistoryResults :
        r.content.error = ControllerError("tool_error") /\ r.isError

\* C12: a dispatch that fails in the transport (not connected, timeout)
\* does not abort the request: the failure is the output's non-empty error
\* string, the completed event is written, the ToolResult has is_error =
\* true, and the loop goes on to the next block or the next provider call
C12_TransportErrorBecomesToolResult ==
  \A k \in 1..Len(invocations) :
     LET id == invocations[k].id
         at == invocations[k].at
     IN  invocations[k].outcome \in {"timeout", "not_connected"} =>
           /\ cpc # "rejected"
           /\ (cpc = "dispatch" /\ bi <= Len(message)
                 /\ CurrentBlock.id = id /\ bstep = "complete") =>
                 response.error # ""
           /\ Len(out) > at => out[at + 1].ev = "completed" /\ out[at + 1].id = id
           /\ \A r \in HistoryResults :
                 r.id = id => r.isError /\ r.content.error # ""
           /\ (\E r \in HistoryResults : r.id = id) =>
                 \/ cpc = "dispatch"
                 \/ cpc = "loop"
                 \/ \E c \in 1..Len(calls) : calls[c].at > at

\* one invocation timed out, the next block found no client connected, and
\* the loop has opened the next provider call
C12_Witness ==
  /\ cpc = "stream"
  /\ nCalls = 2
  /\ Len(invocations) = 2
  /\ invocations[1].outcome = "timeout"
  /\ invocations[2].outcome = "not_connected"
  /\ \A r \in HistoryResults : r.isError

(***************************************************************************)
(* The outbound queue and writePump of a session.                          *)
(***************************************************************************)
\* control frames: PingMessage and CloseMessage
PingFrame == [id |-> 0, tool |-> "", command |-> "ping"]
CloseFrame == [id |-> 0, tool |-> "", command |-> "close"]
\* the socket of a session is closed by either pump's deferred conn.Close()
SocketClosed(s) == wexited[s] \/ sstate[s] = "closed"
PumpRunning(s) == sstate[s] # "new" /\ ~wexited[s]
Pings(s) == Cardinality({i \in 1..Len(wire[s]) : wire[s][i] = PingFrame})

\* sendMessage seen from the queue: the frame is recorded when it was placed
\* on c.send
sendMessageQueued(d) ==
  /\ sendMessage(d)
  /\ enq' = [enq EXCEPT ![dconn[d]] =
               IF sendq'[dconn[d]] # sendq[dconn[d]]
                 THEN Append(@, RequestFrame(d)) ELSE @]
  /\ UNCHANGED <<wire, wexited>>

\* case message, ok := <-c.send: the oldest buffered frame
NewestFrame(s) == sendq[s][Len(sendq[s])]
NextFrame(s) == Head(sendq[s])

\* writePump, ok = true: WriteMessage(TextMessage, message) succeeds
writePumpFrame(s) ==
  /\ ~wexited[s]
  /\ writePumpWrite(s)
  /\ wire' = [wire EXCEPT ![s] = Append(@, NextFrame(s))]
  /\ UNCHANGED <<wexited, enq>>

\* writePump, ok = true: WriteMessage fails on the closed socket; the pump
\* returns and the frame it took is lost
writePumpFrameFails(s) ==
  /\ ~panicked
  /\ PumpRunning(s)
  /\ sstate[s] = "closed"
  /\ sendq[s] # << >>
  /\ sendq' = [sendq EXCEPT ![s] = Tail(@)]
  /\ wexited' = [wexited EXCEPT ![s] = TRUE]
  /\ UNCHANGED <<pendingRequests, connections, dpc, dconn, dresult, derr,
                 chanBuf, chanClosed, sstate, sclient, sendClosed, hpc,
                 hchan, hval, panicked, wire, enq>>

\* writePump, ok = false (queue closed and drained): the close frame is
\* written, the pump returns and its deferred conn.Close() closes the socket
writePumpClose(s) ==
  /\ ~panicked
  /\ PumpRunning(s)
  /\ sendClosed[s]
  /\ sendq[s] = << >>
  /\ wire' = [wire EXCEPT ![s] =
                IF sstate[s] = "open" THEN Append(@, CloseFrame) ELSE @]
  /\ wexited' = [wexited EXCEPT ![s] = TRUE]
  /\ UNCHANGED <<rpcVars, enq>>

\* writePump, case <-ticker.C: a ping is written; the pump returns when the
\* write fails
writePumpPing(s) ==
  /\ ~panicked
  /\ PumpRunning(s)
  /\ IF sstate[s] = "open"
       THEN /\ Pings(s) < MaxPings
            /\ wire' = [wire EXCEPT ![s] = Append(@, PingFrame)]
            /\ UNCHANGED wexited
       ELSE /\ wexited' = [wexited EXCEPT ![s] = TRUE]
            /\ UNCHANGED wire
  /\ UNCHANGED <<rpcVars, enq>>

writePump(s) ==
  \/ writePumpFrame(s)
  \/ writePumpFrameFails(s)
  \/ writePumpClose(s)
  \/ writePumpPing(s)

\* callers up to the point where they wait for the response, and the
\* sessions' pumps
NextQueueOf(DD, SS) ==
  \/ /\ \/ \E d \in DD : sendToolCommand(d)
        \/ \E d \in DD : sendToClient(d)
        \/ \E d \in DD : rollback(d)
        \/ \E d \in DD : closeOnError(d)
        \/ \E s \in SS : HandleWebSocket(s)
        \/ \E s \in SS : readHandshake(s)
        \/ \E s \in SS : readPumpExit(s)
     /\ UNCHANGED wireVars
  \/ \E d \in DD : sendMessageQueued(d)
  \/ \E s \in SS : writePumpFrame(s)
  \/ \E s \in SS : writePumpFrameFails(s)
  \/ \E s \in SS : writePumpClose(s)
  \/ \E s \in SS : writePumpPing(s)

\* the dispatches it takes to fill the queue and overflow it
Senders == 1..(QueueCap + 1)
NextQueue(SS) == NextQueueOf(Senders, SS)

NextWire == NextQueue(OneSession) /\ UNCHANGED <<chatVars, regVars, editorVars, codecVars, frameVars, timerVars>>
SpecWire == Init /\ [][NextWire]_vars
\* the pump is a goroutine of its own: it is scheduled as long as it can run
SpecWireFair ==
  SpecWire /\ \A s \in OneSession : WF_vars(writePump(s) /\ UNCHANGED <<chatVars, regVars, editorVars, codecVars, frameVars, timerVars>>)

\* sendMessage of dispatch d finds the open queue of its session full
FindsQueueFull(d) ==
  /\ dpc[d] = "sendMessage"
  /\ ~sendClosed[dconn[d]]
  /\ Len(sendq[dconn[d]]) = QueueCap

IsDataFrame(f) == f.id # 0
DataFrames(s) == SelectSeq(wire[s], IsDataFrame)

\* C17: within one session the frames are written to the socket in exactly
\* the order in which sendMessage enqueued them, whatever the interleaving
\* of dispatches, pump and keepalive ticks
C17_WrittenInEnqueueOrder ==
  \A s \in Sessions :
     LET w == DataFrames(s)
         n == Len(enq[s])
     IN  /\ Len(w) <= n
         /\ w = SubSeq(enq[s], 1, Len(w))
         /\ sendq[s] = SubSeq(enq[s], n - Len(sendq[s]) + 1, n)
         /\ ~wexited[s] => w \o sendq[s] = enq[s]

\* two frames were enqueued against the order of their request ids, a ping
\* was written between them, and a third frame is still queued
C17_Witness ==
  \E s \in Sessions :
     LET w == DataFrames(s)
     IN  /\ Len(w) = 2
         /\ w[1].id > w[2].id
         /\ Len(wire[s]) = 3
         /\ wire[s][2] = PingFrame
         /\ sendq[s] # << >>

(***************************************************************************)
(* The registry with a session that reconnects.                            *)
(***************************************************************************)
\* a dispatch starts: the sessions replaced in the registry so far
sendToolCommandStarted(d) ==
  /\ sendToolCommand(d)
  /\ superseded' = [superseded EXCEPT ![d] =
                      {s \in Sessions : sclient[s] # "" /\ s # latest}]
  /\ UNCHANGED latest

\* a handshake is read: the session is the registered one again
readHandshakeLatest(s) ==
  /\ readHandshake(s)
  /\ latest' = s
  /\ superseded' = [d \in Dispatches |-> superseded[d] \ {s}]

NextRegistry ==
  \/ /\ \/ \E d \in Callers : sendToolCommandStarted(d)
        \/ \E s \in Sessions : readHandshakeLatest(s)
     /\ UNCHANGED wireVars
  \/ /\ \/ \E d \in Callers : sendToClient(d)
        \/ \E d \in Callers : rollback(d)
        \/ \E d \in Callers : closeOnError(d)
        \/ \E s \in Sessions : HandleWebSocket(s)
        \/ \E s \in Sessions : readPumpExit(s)
     /\ UNCHANGED <<wireVars, regVars>>
  \/ /\ \/ \E d \in Callers : sendMessageQueued(d)
        \/ \E s \in Sessions : writePumpFrame(s)
        \/ \E s \in Sessions : writePumpFrameFails(s)
        \/ \E s \in Sessions : writePumpClose(s)
     /\ UNCHANGED regVars

SpecRegistry ==
  Init /\ [][NextRegistry /\ UNCHANGED <<chatVars, editorVars, codecVars, frameVars, timerVars>>]_vars

\* C14: one session at most is registered under the client name; a
\* handshake on a new session replaces the registered one, and a dispatch
\* started after it goes to the new session: never to a replaced one, and
\* the new session is the registered one as long as it is running
C14_DispatchReachesNewSession ==
  /\ connections \in Sessions \cup {NoSession}
  /\ \A d \in Dispatches : dconn[d] \notin superseded[d]
  /\ (latest # NoSession /\ sstate[latest] = "open") => connections = latest

\* C15: the first frame of a session must be the handshake: a tool_response
\* read on a session that has not shaken hands resolves no pending request
\* (handleToolResponse finds no sink for it)
C15_NoResponseBeforeHandshake ==
  \A s \in Sessions : hpc[s] # "idle" => sclient[s] # ""

\* the Authorization header of a session's upgrade request: s1 presents
\* "Bearer " + the configured token, s2 does not
BearerOk(s) == s = "s1"

\* C16: a connection attempt without the right bearer credential is
\* rejected before the upgrade: no session, no pump, no registration, and
\* no frame of that peer is processed
C16_UnauthorizedPeerRejected ==
  \A s \in Sessions :
     ~BearerOk(s) =>
        /\ sstate[s] = "new"
        /\ sclient[s] = ""
        /\ connections # s
        /\ hpc[s] = "idle"

(***************************************************************************)
(* The sandbox's text editor (R).  A file is a sequence of characters;     *)
(* readLines and writeLines convert between it and a vector of lines.  A   *)
(* line and a text are sequences of characters too.                        *)
(***************************************************************************)
NL == "\n"
FileChars == {"a", "b", NL}
TextChars == {"x", NL}

\* the sequences over S of length at most n
SeqsUpTo(S, n) == UNION {[1..m -> S] : m \in 0..n}

Files == SeqsUpTo(FileChars, MaxLen)
OldStrs == SeqsUpTo({"a", "b"}, 2) \ {<< >>}
NewStrs == {<< >>, <<"c">>}
NewTexts == SeqsUpTo(TextChars, MaxText)
InsertLines == 0..(MaxLen + 1)
NoRange == << >>
ViewRanges == {NoRange} \cup ((1..(MaxLen + 1)) \X (1..(MaxLen + 1)))
Paths == {"file", "missing", "dir", "outside"}

\* the marker R gives for an element read beyond the end of a vector
NA == <<"NA">>

\* the pieces of a text between its newlines; there is always one at least
RECURSIVE Pieces(_)
Pieces(t) ==
  IF t = << >> THEN << << >> >>
  ELSE LET rest == Pieces(Tail(t))
       IN  IF Head(t) = NL THEN << << >> >> \o rest
           ELSE << <<Head(t)>> \o Head(rest) >> \o Tail(rest)

\* strsplit(t, "\n")[[1]]: an empty last piece is not a line, and the empty
\* text has no lines
strsplit(t) ==
  LET ps == Pieces(t)
  IN  IF ps[Len(ps)] = << >> THEN SubSeq(ps, 1, Len(ps) - 1) ELSE ps

\* readLines(path, warn = FALSE): the lines of a file, with or without a
\* newline after its last line
readLines(f) == strsplit(f)

\* writeLines(lines, path): every line followed by a newline
RECURSIVE writeLines(_)
writeLines(ls) ==
  IF ls = << >> THEN << >> ELSE Head(ls) \o <<NL>> \o writeLines(Tail(ls))

\* a:b of R: ascending when a <= b, descending when a > b, never empty
Colon(a, b) ==
  IF a <= b THEN [i \in 1..(b - a + 1) |-> a + i - 1]
  ELSE [i \in 1..(a - b + 1) |-> a - i + 1]

\* v[idx] of R for non-negative indices: index 0 selects nothing, an index
\* beyond the length selects NA
RECURSIVE Index(_, _)
Index(v, idx) ==
  IF idx = << >> THEN << >>
  ELSE LET i == Head(idx)
           e == IF i = 0 THEN << >>
                ELSE IF i > Len(v) THEN <<NA>> ELSE <<v[i]>>
       IN  e \o Index(v, Tail(idx))

\* v[!is.na(v)]
RECURSIVE DropNA(_)
DropNA(v) ==
  IF v = << >> THEN << >>
  ELSE (IF Head(v) = NA THEN << >> ELSE <<Head(v)>>) \o DropNA(Tail(v))

\* old occurs in content at position i
OccursAt(old, content, i) ==
  /\ i + Len(old) - 1 <= Len(content)
  /\ SubSeq(content, i, i + Len(old) - 1) = old

\* gregexpr(old, content, fixed = TRUE)[[1]]: the start positions of the
\* matches found from position i on, scanning left to right and resuming
\* after each match; <<-1>> stands for no match
RECURSIVE MatchesFrom(_, _, _)
MatchesFrom(old, content, i) ==
  IF i + Len(old) - 1 > Len(content) THEN << >>
  ELSE IF OccursAt(old, content, i)
       THEN <<i>> \o MatchesFrom(old, content, i + Len(old))
       ELSE MatchesFrom(old, content, i + 1)

gregexpr(old, content) ==
  LET ms == MatchesFrom(old, content, 1)
  IN  IF ms = << >> THEN <<-1>> ELSE ms

\* gsub(old, new, content, fixed = TRUE): every match of the same scan is
\* replaced
RECURSIVE gsubFrom(_, _, _, _)
gsubFrom(old, new, content, i) ==
  IF i > Len(content) THEN << >>
  ELSE IF OccursAt(old, content, i)
       THEN new \o gsubFrom(old, new, content, i + Len(old))
       ELSE <<content[i]>> \o gsubFrom(old, new, content, i + 1)

gsub(old, new, content) == gsubFrom(old, new, content, 1)

\* the output object of a tool: content or error; listing holds the
\* numbered lines of a view's content, matches the number that the error
\* of a replacement names
ToolResult(content, error) ==
  [content |-> content, error |-> error, listing |-> << >>, matches |-> 0]

ViewResult(listing) ==
  [content |-> "File contents", error |-> "", listing |-> listing,
   matches |-> 0]

FoundMatches(matches) ==
  [content |-> "", error |-> "Found matches for replacement text",
   listing |-> << >>, matches |-> matches]

\* the checks of the path that the three tools share; "" when it is a file
PathError(path, missing, dir) ==
  IF path = "outside" THEN "Path outside safe root"
  ELSE IF path = "missing" THEN missing
  ELSE IF path = "dir" THEN dir
  ELSE ""

InitEditor ==
  /\ InitDaemon
  /\ InitCodecIdle
  /\ efile0 \in Files
  /\ efile = efile0
  /\ ecall = [cmd |-> "none"]
  /\ eout = ToolResult("", "")
  /\ epc = "ready"

Returned(call, result) ==
  /\ ecall' = call
  /\ eout' = result
  /\ epc' = "done"
  /\ UNCHANGED efile0

text_editor_str_replace(path, old_str, new_str) ==
  /\ epc = "ready"
  /\ LET call == [cmd |-> "str_replace", path |-> path,
                  old_str |-> old_str, new_str |-> new_str]
         perr == PathError(path, "File not found", "Cannot edit directory")
         content == efile
         matches == Len(gregexpr(old_str, content))
     IN  IF perr # ""
         THEN Returned(call, ToolResult("", perr)) /\ UNCHANGED efile
         ELSE IF matches = 0
                 \/ (matches = 1 /\ gregexpr(old_str, content)[1] = -1)
         THEN /\ Returned(call,
                          ToolResult("", "No match found for replacement"))
              /\ UNCHANGED efile
         ELSE IF matches > 1
         THEN /\ Returned(call, FoundMatches(matches))
              /\ UNCHANGED efile
         ELSE /\ efile' = gsub(old_str, new_str, content)
              /\ Returned(call,
                   ToolResult("Successfully replaced text", ""))

text_editor_insert(path, insert_line, new_str) ==
  /\ epc = "ready"
  /\ LET call == [cmd |-> "insert", path |-> path,
                  insert_line |-> insert_line, new_str |-> new_str]
         perr == PathError(path, "File not found", "Cannot edit directory")
         lines == readLines(efile)
         new_lines == strsplit(new_str)
         result_lines ==
           IF insert_line = 0 THEN new_lines \o lines
           ELSE Index(lines, Colon(1, insert_line)) \o new_lines
                \o Index(lines, Colon(insert_line + 1, Len(lines)))
     IN  IF perr # ""
         THEN Returned(call, ToolResult("", perr)) /\ UNCHANGED efile
         ELSE IF insert_line < 0
         THEN /\ Returned(call, ToolResult("", "insert_line must be >= 0"))
              /\ UNCHANGED efile
         ELSE IF insert_line > Len(lines)
         THEN /\ Returned(call, ToolResult("", "beyond file length"))
              /\ UNCHANGED efile
         ELSE /\ efile' = writeLines(DropNA(result_lines))
              /\ Returned(call,
                   ToolResult("Successfully inserted text", ""))

\* the numbered lines that the loop of the view appends to its result, for
\* the line numbers left in is; lines[0] is empty
RECURSIVE Numbered(_, _)
Numbered(lines, is) ==
  IF is = << >> THEN << >>
  ELSE LET i == Head(is)
           e == IF i <= Len(lines)
                THEN << [num |-> i,
                         text |-> IF i = 0 THEN << >> ELSE lines[i]] >>
                ELSE << >>
       IN  e \o Numbered(lines, Tail(is))

text_editor_view(path, view_range) ==
  /\ epc = "ready"
  /\ LET call == [cmd |-> "view", path |-> path, view_range |-> view_range]
         perr == PathError(path, "Failed to stat file", "")
         lines == readLines(efile)
         ranged == Len(view_range) = 2
         start_line == IF ranged THEN view_range[1] ELSE 1
         end_line ==
           IF ranged
           THEN (IF view_range[2] < Len(lines) THEN view_range[2]
                 ELSE Len(lines))
           ELSE Len(lines)
     IN  IF perr # ""
         THEN Returned(call, ToolResult("", perr))
         ELSE IF path = "dir"
         THEN Returned(call, ToolResult("Directory listing", ""))
         ELSE Returned(call,
                ViewResult(Numbered(lines, Colon(start_line, end_line))))
  /\ UNCHANGED efile

NextEditor ==
  \/ \E p \in Paths, o \in OldStrs, n \in NewStrs :
        text_editor_str_replace(p, o, n)
  \/ \E p \in Paths, k \in InsertLines, n \in NewTexts :
        text_editor_insert(p, k, n)
  \/ \E p \in Paths, r \in ViewRanges : text_editor_view(p, r)

SpecEditor ==
  InitEditor
  /\ [][NextEditor
          /\ UNCHANGED <<rpcVars, chatVars, wireVars, regVars, codecVars,
                         frameVars, timerVars>>]_vars

\* the positions of content at which old occurs
Occurrences(old, content) ==
  {i \in 1..Len(content) : OccursAt(old, content, i)}

\* content with the occurrence of old at position i replaced by new
ReplacedAt(old, new, content, i) ==
  SubSeq(content, 1, i - 1) \o new
  \o SubSeq(content, i + Len(old), Len(content))

StrReplaceDone ==
  epc = "done" /\ ecall.cmd = "str_replace" /\ ecall.path = "file"

\* C18: str_replace replaces the old text only when it occurs exactly once
\* in the file and leaves the rest of the file as it was; with no
\* occurrence it returns an error, with more than one it returns an error
\* naming their number, and in both cases the file is not modified
C18_ReplacesOnlyUniqueOccurrence ==
  StrReplaceDone =>
    LET occ == Occurrences(ecall.old_str, efile0)
    IN  /\ Cardinality(occ) = 1 =>
             /\ eout.error = ""
             /\ \A i \in occ :
                   efile = ReplacedAt(ecall.old_str, ecall.new_str, efile0, i)
        /\ Cardinality(occ) = 0 =>
             /\ eout.error = "No match found for replacement"
             /\ efile = efile0
        /\ Cardinality(occ) > 1 =>
             /\ eout.error = "Found matches for replacement text"
             /\ eout.matches = Cardinality(occ)
             /\ efile = efile0

InsertDone == epc = "done" /\ ecall.cmd = "insert" /\ ecall.path = "file"

\* C19: insert with line number k on a file of n lines returns an error and
\* leaves the file as it was when k > n; for 0 <= k <= n the resulting file
\* is the first k original lines, the lines of the new text, and the
\* remaining n - k original lines, each original line once and in order
C19_InsertKeepsEveryLineOnce ==
  InsertDone =>
    LET lines == readLines(efile0)
        n == Len(lines)
        k == ecall.insert_line
    IN  /\ k > n => eout.error # "" /\ efile = efile0
        /\ k <= n =>
             /\ eout.error = ""
             /\ readLines(efile) =
                  SubSeq(lines, 1, k) \o strsplit(ecall.new_str)
                  \o SubSeq(lines, k + 1, n)

ViewDone == epc = "done" /\ ecall.cmd = "view" /\ ecall.path = "file"

\* the numbered lines from line a to line b, ascending; none when a > b
LinesBetween(lines, a, b) ==
  [i \in 1..(IF b >= a THEN b - a + 1 ELSE 0) |->
     [num |-> a + i - 1, text |-> lines[a + i - 1]]]

\* C20: view of a file of n lines with range [start, end] returns exactly
\* the lines start..min(end, n), each with its 1-based line number and in
\* ascending order, and no line number outside the range or outside 1..n;
\* with no range it returns all n lines
C20_ViewReturnsRequestedLines ==
  ViewDone =>
    LET lines == readLines(efile0)
        n == Len(lines)
        r == ecall.view_range
        first == IF r = NoRange THEN 1 ELSE r[1]
        last == IF r = NoRange \/ r[2] > n THEN n ELSE r[2]
    IN  /\ eout.error = ""
        /\ eout.listing = LinesBetween(lines, first, last)
        /\ \A j \in 1..Len(eout.listing) :
              /\ eout.listing[j].num \in 1..n
              /\ r # NoRange => eout.listing[j].num \in r[1]..r[2]

(***************************************************************************)
(* The command objects of the protocol and their JSON wire form            *)
(* (encoding/json: json.Marshal of the struct, json.Unmarshal into it).    *)
(***************************************************************************)
\* a []int: nil, or a slice with its elements (an empty slice is not nil)
NilSlice == [isnil |-> TRUE, elems |-> << >>]
Slice(elems) == [isnil |-> FALSE, elems |-> elems]
Slices == {NilSlice} \cup {Slice(e) : e \in SeqsUpTo({1, 2}, MaxRange)}

Strings == {"", "p"}
Ints == {0, 2}

InputTypes ==
  {"textEditorViewInput", "textEditorStrReplaceInput",
   "textEditorCreateInput", "textEditorInsertInput", "consoleExecInput"}
OutputTypes ==
  {"textEditorViewOutput", "textEditorStrReplaceOutput",
   "textEditorCreateOutput", "textEditorInsertOutput", "consoleExecOutput"}

textEditorViewInput(path, view_range) ==
  [type |-> "textEditorViewInput", path |-> path, view_range |-> view_range]
textEditorStrReplaceInput(path, old_str, new_str) ==
  [type |-> "textEditorStrReplaceInput", path |-> path, old_str |-> old_str,
   new_str |-> new_str]
textEditorCreateInput(path, file_text) ==
  [type |-> "textEditorCreateInput", path |-> path, file_text |-> file_text]
textEditorInsertInput(path, insert_line, new_str) ==
  [type |-> "textEditorInsertInput", path |-> path,
   insert_line |-> insert_line, new_str |-> new_str]
consoleExecInput(code) == [type |-> "consoleExecInput", code |-> code]
\* the five output structs have the same two members
Output(type, content, error) ==
  [type |-> type, content |-> content, error |-> error]

Objects ==
  {textEditorViewInput(p, r) : p \in Strings, r \in Slices}
  \cup {textEditorStrReplaceInput(p, o, n) :
          p \in Strings, o \in Strings, n \in Strings}
  \cup {textEditorCreateInput(p, t) : p \in Strings, t \in Strings}
  \cup {textEditorInsertInput(p, k, n) :
          p \in Strings, k \in Ints, n \in Strings}
  \cup {consoleExecInput(c) : c \in Strings}
  \cup {Output(t, c, e) : t \in OutputTypes, c \in Strings, e \in Strings}

\* a JSON object: each member is absent (<< >>) or present with its value
Absent == << >>
Member(v) == <<v>>
EmptyObject ==
  [type |-> "object", path |-> Absent, view_range |-> Absent,
   old_str |-> Absent, new_str |-> Absent, file_text |-> Absent,
   insert_line |-> Absent, code |-> Absent, content |-> Absent,
   error |-> Absent]

\* a member tagged omitempty is left out when the slice has no element, nil
\* or not
OmitEmpty(slice) ==
  IF Len(slice.elems) = 0 THEN Absent ELSE Member(slice.elems)

\* json.Marshal of a command object
Marshal(o) ==
  CASE o.type = "textEditorViewInput" ->
         [EmptyObject EXCEPT !.path = Member(o.path),
                             !.view_range = OmitEmpty(o.view_range)]
    [] o.type = "textEditorStrReplaceInput" ->
         [EmptyObject EXCEPT !.path = Member(o.path),
                             !.old_str = Member(o.old_str),
                             !.new_str = Member(o.new_str)]
    [] o.type = "textEditorCreateInput" ->
         [EmptyObject EXCEPT !.path = Member(o.path),
                             !.file_text = Member(o.file_text)]
    [] o.type = "textEditorInsertInput" ->
         [EmptyObject EXCEPT !.path = Member(o.path),
                             !.insert_line = Member(o.insert_line),
                             !.new_str = Member(o.new_str)]
    [] o.type = "consoleExecInput" ->
         [EmptyObject EXCEPT !.code = Member(o.code)]
    [] OTHER ->
         [EmptyObject EXCEPT !.content = Member(o.content),
                             !.error = Member(o.error)]

\* json.Unmarshal of a member: an absent member leaves the zero value of the
\* field, an array makes a slice that is not nil
StringMember(m) == IF m = Absent THEN "" ELSE m[1]
IntMember(m) == IF m = Absent THEN 0 ELSE m[1]
SliceMember(m) == IF m = Absent THEN NilSlice ELSE Slice(m[1])

\* json.Unmarshal of a JSON object into a struct of the given type
Unmarshal(type, w) ==
  CASE type = "textEditorViewInput" ->
         textEditorViewInput(StringMember(w.path), SliceMember(w.view_range))
    [] type = "textEditorStrReplaceInput" ->
         textEditorStrReplaceInput(StringMember(w.path),
                                   StringMember(w.old_str),
                                   StringMember(w.new_str))
    [] type = "textEditorCreateInput" ->
         textEditorCreateInput(StringMember(w.path),
                               StringMember(w.file_text))
    [] type = "textEditorInsertInput" ->
         textEditorInsertInput(StringMember(w.path),
                               IntMember(w.insert_line),
                               StringMember(w.new_str))
    [] type = "consoleExecInput" -> consoleExecInput(StringMember(w.code))
    [] OTHER ->
         Output(type, StringMember(w.content), StringMember(w.error))

InitCodec ==
  /\ InitDaemon
  /\ InitEditorIdle
  /\ jobj \in Objects
  /\ jwire = NoWire
  /\ jback = NoObject

jsonMarshal ==
  /\ jwire = NoWire
  /\ jwire' = Marshal(jobj)
  /\ UNCHANGED <<jobj, jback>>

jsonUnmarshal ==
  /\ jwire # NoWire
  /\ jback = NoObject
  /\ jback' = Unmarshal(jobj.type, jwire)
  /\ UNCHANGED <<jobj, jwire>>

NextCodec == jsonMarshal \/ jsonUnmarshal

SpecCodec ==
  InitCodec
  /\ [][NextCodec
          /\ UNCHANGED <<rpcVars, chatVars, wireVars, regVars, editorVars,
                         frameVars, timerVars>>]_vars

\* C21: for each command of the protocol, encoding an input or output
\* object to its JSON wire form and decoding it again yields an object equal
\* to the original, also for a view input whose line range is absent (nil)
\* or empty
C21_RoundTrip == jback # NoObject => jback = jobj

(***************************************************************************)
(* Further properties of the RPC layer.                                    *)
(***************************************************************************)
\* C22: in every interleaving of a dispatch's cleanup (after its timeout or
\* after its response) with handleToolResponse for the same request id,
\* handleToolResponse never stands at its channel send with the sink
\* already closed by cleanup: the response is delivered or dropped, and the
\* send cannot panic
C22_NoSendOnClosedSink ==
  \A s \in Sessions :
    hpc[s] \in {"send", "parked"} =>
      ~(chanClosed[hchan[s]] /\ ~NotConnected(hchan[s]))

\* C23: handleToolResponse never blocks the session's readPump: for a
\* pending id it hands the result to the sink without waiting for the
\* caller, also when the sink already holds a value, so the pump is never
\* parked in the channel send and goes on to read the next frame
C23_HandlerNeverBlocks == \A s \in Sessions : hpc[s] # "parked"

\* the readPump of session s returns in this step (its deferred teardown)
Terminates(s) == sstate[s] = "open" /\ sstate'[s] = "closed"

\* C24: a session that terminates removes the client name from the registry
\* when the name is still bound to that session, and only then: when a
\* newer session has registered under the name, the teardown of the old one
\* leaves the newer one registered
C24_TeardownRemovesOwnBindingOnly ==
  [][\A s \in Sessions :
       Terminates(s) =>
         connections' = IF connections = s THEN NoSession ELSE connections]_vars

\* the step is the delete(m.pendingRequests, requestID) of dispatch d: in
\* sendToolCommand's error path or in cleanup()
DeletesEntry(d) ==
  \/ dpc[d] = "rollback" /\ dpc'[d] = "closeOnError"
  \/ dpc[d] = "cleanup" /\ dpc'[d] = "cleanupClose"

\* the step is the close(responseChan) of dispatch d, after which it returns
ClosesSink(d) ==
  dpc[d] \in {"closeOnError", "cleanupClose"} /\ dpc'[d] = "done"

HasReturned(d) == dpc[d] = "done"

\* C25: every dispatch removes its pending entry exactly once and closes its
\* sink exactly once, on the success, the timeout and the send-failure
\* path: a delete finds the entry present and an entry removed is never
\* registered again, a close finds the sink open and a closed sink stays
\* closed, and no dispatch returns with its entry in the table or its sink
\* open
C25_RemovedAndClosedExactlyOnce ==
  /\ [](\A d \in Dispatches :
          HasReturned(d) =>
            pendingRequests[RequestID(d)] = NoChan /\ chanClosed[d])
  /\ [][\A d \in Dispatches :
          /\ DeletesEntry(d) =>
               /\ pendingRequests[RequestID(d)] = d
               /\ pendingRequests'[RequestID(d)] = NoChan
          /\ (pendingRequests[RequestID(d)] # NoChan
                /\ pendingRequests'[RequestID(d)] = NoChan) => DeletesEntry(d)
          /\ (dpc[d] # "idle" /\ pendingRequests[RequestID(d)] = NoChan)
               => pendingRequests'[RequestID(d)] = NoChan
          /\ ClosesSink(d) => ~chanClosed[d] /\ chanClosed'[d]
          /\ (~chanClosed[d] /\ chanClosed'[d]) => ClosesSink(d)
          /\ chanClosed[d] => chanClosed'[d]]_rpcVars

\* C25 witness: one dispatch has returned on the send-failure path and
\* another on the timeout path, each with its entry removed and its sink
\* closed
C25_Witness ==
  \E d, e \in Dispatches :
    /\ dpc[d] = "done" /\ NotConnected(d)
    /\ dpc[e] = "done" /\ derr[e] = "request timeout"
    /\ pendingRequests[RequestID(d)] = NoChan /\ chanClosed[d]
    /\ pendingRequests[RequestID(e)] = NoChan /\ chanClosed[e]
    /\ ~panicked

\* C26: in every reachable state the sink of a dispatch is open exactly
\* when its request id is in the pending-request table: the entry is never
\* removed while the sink is still open, and a closed sink is never still
\* registered
C26_SinkOpenIffRegistered ==
  \A d \in Dispatches :
    dpc[d] # "idle" =>
      (~chanClosed[d] <=> pendingRequests[RequestID(d)] = d)

(***************************************************************************)
(* Further properties of the agentic loop.                                 *)
(***************************************************************************)
\* positions of the tool_call events with this status for tool-use id
ToolCallEvents(status, id) ==
  {p \in 1..Len(out) : out[p].ev = status /\ out[p].id = id}

\* the tool-use ids whose ToolUse and ToolResult are in the history
HandledIds == {msgs[i].id : i \in ToolUsePositions}

\* C27: for every ToolUse block the output carries exactly one tool_call
\* event with status requesting and, later, exactly one with status
\* completed; no completed event is without a preceding requesting event
\* and no requesting event is left without completion once the block is
\* handled, also for unparsable input, a missing or an unknown command
C27_RequestingThenCompletedOnce ==
  /\ \A id \in 1..emitted :
        /\ Cardinality(ToolCallEvents("requesting", id)) <= 1
        /\ Cardinality(ToolCallEvents("completed", id)) <= 1
        /\ \A q \in ToolCallEvents("completed", id) :
              \E p \in ToolCallEvents("requesting", id) : p < q
  /\ \A id \in HandledIds :
        /\ Cardinality(ToolCallEvents("requesting", id)) = 1
        /\ Cardinality(ToolCallEvents("completed", id)) = 1

\* C28: at every provider call, each ToolResult block of the history refers
\* to a ToolUse id that occurs in an earlier message of the same history
C28_ToolResultRefersToEarlierToolUse ==
  cpc = "stream" =>
    \A i \in 1..Len(msgs) :
      \A a \in 1..Len(msgs[i].results) :
        \E j \in 1..(i - 1) :
           msgs[j].type = "tool_use" /\ msgs[j].id = msgs[i].results[a].id

\* a provider call is open whose history holds a user message with the
\* results of two tool-use blocks
C28_Witness ==
  /\ cpc = "stream"
  /\ nCalls >= 2
  /\ \E i \in 1..Len(msgs) : Len(msgs[i].results) = 2

(***************************************************************************)
(* The readPump loop frame by frame: frames that do not parse and          *)
(* tool_response frames with and without id and result.                    *)
(***************************************************************************)
\* what the readPump does with a tool_response frame
FrameKind(id, result) ==
  IF id = NoRequestID THEN "no_id"
  ELSE IF result = ResultNil THEN "no_result"
  ELSE "response"

DroppedKinds == {"unparsable", "no_id", "no_result"}

Logged(s, kind) ==
  /\ Len(rlog[s]) < MaxFrames
  /\ rlog' = [rlog EXCEPT ![s] = Append(@, kind)]

\* readPump: json.Unmarshal(message, &wsMsg) fails; log and continue
readUnparsable(s) ==
  /\ ~panicked
  /\ sstate[s] = "open"
  /\ hpc[s] = "idle"
  /\ Logged(s, "unparsable")
  /\ UNCHANGED rpcVars

\* readPump, case "tool_response", with the frame recorded
readToolResponseLogged(s, id, tool, command, result) ==
  /\ readToolResponse(s, id, tool, command, result)
  /\ Logged(s, FrameKind(id, result))

\* the dispatch whose request the frames answer
FirstCaller == {1}

NextFrames ==
  \/ /\ \/ \E d \in FirstCaller : sendToolCommand(d)
        \/ \E d \in FirstCaller : sendToClient(d)
        \/ \E d \in FirstCaller : sendMessage(d)
        \/ \E d \in FirstCaller : rollback(d)
        \/ \E d \in FirstCaller : closeOnError(d)
        \/ \E d \in FirstCaller : receiveResponse(d)
        \/ \E d \in FirstCaller : timeout(d)
        \/ \E d \in FirstCaller : cleanupDelete(d)
        \/ \E d \in FirstCaller : cleanupClose(d)
        \/ \E s \in OneSession : HandleWebSocket(s)
        \/ \E s \in OneSession : readHandshake(s)
        \/ \E s \in OneSession : handlerSend(s)
        \/ \E s \in OneSession : readPumpExit(s)
        \/ \E s \in OneSession : writePumpWrite(s)
     /\ UNCHANGED frameVars
  \/ \E s \in OneSession : readUnparsable(s)
  \/ \E s \in OneSession, id \in RequestIDs \cup {NoRequestID},
        k \in FrameKinds :
       \E result \in FrameResults(id) :
          readToolResponseLogged(s, id, k[1], k[2], result)

SpecFrames ==
  Init
  /\ [][NextFrames
          /\ UNCHANGED <<chatVars, wireVars, regVars, editorVars,
                         codecVars, timerVars>>]_vars

\* the step reads a frame of session s that is to be dropped
ReadsDropped(s) ==
  /\ Len(rlog'[s]) = Len(rlog[s]) + 1
  /\ rlog'[s][Len(rlog'[s])] \in DroppedKinds

\* C29: a frame that cannot be parsed, and a tool_response without request
\* id or without result, is dropped: reading it resolves no pending request
\* and hands no value to any sink, writes no event to a chat stream, and
\* leaves the session running and ready to read the next frame
C29_MalformedFrameDropped ==
  [][\A s \in Sessions :
       ReadsDropped(s) =>
         /\ UNCHANGED <<rpcVars, chatVars>>
         /\ sstate'[s] = "open" /\ hpc'[s] = "idle"]_vars

\* a session has read a frame that does not parse and a tool_response
\* without result, then the response that the waiting dispatch returned
C29_Witness ==
  \E s \in Sessions :
    /\ rlog[s] = <<"unparsable", "no_result", "response">>
    /\ dpc[1] = "done"
    /\ derr[1] = "none"
    /\ dresult[1] = DecodeOutput(SandboxResult(RequestID(1)))

(***************************************************************************)
(* The session's timers: readPump's read deadline, its pong handler and    *)
(* the writePump's ping ticker.                                            *)
(***************************************************************************)
\* HandleWebSocket starts the pumps: readPump sets the first read deadline
\* and the pong handler, writePump creates its ticker
HandleWebSocketTimed(s) ==
  /\ HandleWebSocket(s)
  /\ deadline' = [deadline EXCEPT ![s] = now + PongWait]
  /\ nextPing' = [nextPing EXCEPT ![s] = now + PingPeriod]
  /\ lastRead' = [lastRead EXCEPT ![s] = now]
  /\ lastPong' = [lastPong EXCEPT ![s] = now]
  /\ UNCHANGED <<now, pongDue, expiredAt>>

\* readPump: ReadMessage returns a frame before the deadline (here a
\* handshake); the loop does not touch the deadline
readFrameTimed(s) ==
  /\ now < deadline[s]
  /\ readHandshake(s)
  /\ lastRead' = [lastRead EXCEPT ![s] = now]
  /\ UNCHANGED <<now, deadline, nextPing, pongDue, lastPong, expiredAt>>

\* writePump, case <-ticker.C: the ping is written
tickerFires(s) ==
  /\ now = nextPing[s]
  /\ writePumpPing(s)
  /\ nextPing' = [nextPing EXCEPT ![s] = now + PingPeriod]
  /\ pongDue' = [pongDue EXCEPT ![s] = sstate[s] = "open"]
  /\ UNCHANGED <<now, deadline, lastRead, lastPong, expiredAt>>

\* the peer answers the ping: the pong handler, run inside ReadMessage,
\* sets the read deadline again
pongHandler(s) ==
  /\ ~panicked
  /\ sstate[s] = "open"
  /\ pongDue[s]
  /\ now < deadline[s]
  /\ deadline' = [deadline EXCEPT ![s] = now + PongWait]
  /\ lastPong' = [lastPong EXCEPT ![s] = now]
  /\ pongDue' = [pongDue EXCEPT ![s] = FALSE]
  /\ UNCHANGED <<rpcVars, wireVars, now, nextPing, lastRead, expiredAt>>

\* readPump: ReadMessage fails with a timeout when the deadline has passed
deadlineExpires(s) ==
  /\ now >= deadline[s]
  /\ readPumpExit(s)
  /\ expiredAt' = [expiredAt EXCEPT ![s] = now]
  /\ UNCHANGED <<wireVars, now, deadline, nextPing, pongDue, lastRead,
                 lastPong>>

\* time passes, up to the next deadline or ticker of a running session
Tick ==
  /\ now + TimeStep <= MaxTime
  /\ \A s \in Sessions :
        /\ sstate[s] = "open" => now < deadline[s]
        /\ (PumpRunning(s) /\ nextPing[s] # NoTime) => now < nextPing[s]
  /\ now' = now + TimeStep
  /\ UNCHANGED <<rpcVars, wireVars, deadline, nextPing, pongDue, lastRead,
                 lastPong, expiredAt>>

NextTimers ==
  \/ \E s \in OneSession : HandleWebSocketTimed(s) /\ UNCHANGED wireVars
  \/ \E s \in OneSession : readFrameTimed(s) /\ UNCHANGED wireVars
  \/ \E s \in OneSession : tickerFires(s)
  \/ \E s \in OneSession : pongHandler(s)
  \/ \E s \in OneSession : deadlineExpires(s)
  \/ Tick

SpecTimers ==
  Init
  /\ [][NextTimers
          /\ UNCHANGED <<chatVars, regVars, editorVars, codecVars,
                         frameVars>>]_vars

Later(a, b) == IF a >= b THEN a ELSE b

\* C30: the read deadline of a session is pushed PongWait into the future
\* by every successfully read frame and by every pong, so the deadline ends
\* a session only when PongWait has passed with neither: a peer that keeps
\* sending frames, or that answers the pings, is never timed out
C30_DeadlineFollowsReadsAndPongs ==
  \A s \in Sessions :
    /\ sstate[s] = "open" =>
         deadline[s] = Later(lastRead[s], lastPong[s]) + PongWait
    /\ expiredAt[s] # NoTime =>
         /\ expiredAt[s] - lastRead[s] >= PongWait
         /\ expiredAt[s] - lastPong[s] >= PongWait

(***************************************************************************)
(* The pending-request table over whole runs of the RPC layer.             *)
(***************************************************************************)
\* the dispatch is inside sendTextEditor*Command: called and not yet returned
InProgress(d) == dpc[d] \notin {"idle", "done"}

\* C31: whenever no dispatch is in progress the pending-request table is
\* empty: after any sequence of dispatches, responses, timeouts, duplicate
\* or unknown-id responses and connection changes, every entry of the table
\* belongs to a dispatch that is still in progress, under the id that
\* dispatch registered
C31_NoEntryOutlivesDispatch ==
  /\ (\A d \in Dispatches : ~InProgress(d))
       => \A i \in RequestIDs : pendingRequests[i] = NoChan
  /\ \A i \in RequestIDs :
       pendingRequests[i] # NoChan =>
         /\ InProgress(pendingRequests[i])
         /\ RequestID(pendingRequests[i]) = i

\* C31 witness: every caller has returned, one with its response and one with
\* the timeout error, and the table is empty
C31_Witness ==
  /\ \A d \in Callers : dpc[d] = "done"
  /\ \E d \in Callers : derr[d] = "none" /\ dresult[d] # NoValue
  /\ \E d \in Callers : derr[d] = "request timeout"
  /\ \A i \in RequestIDs : pendingRequests[i] = NoChan

(***************************************************************************)
(* The outbound queue after an overflow.                                   *)
(***************************************************************************)
\* the queue with one dispatch more than it takes to overflow it
NextOverflow ==
  NextQueueOf(Dispatches, OneSession)
  /\ UNCHANGED <<chatVars, regVars, editorVars, codecVars, frameVars, timerVars>>
SpecOverflow == Init /\ [][NextOverflow]_vars

\* sendMessage of dispatch d runs on a queue that an earlier overflow closed:
\* its select evaluates c.send <- data on the closed channel
SendsOnClosedQueue(d) == dpc[d] = "sendMessage" /\ sendClosed[dconn[d]]

\* C32: the outbound queue of a session is closed at most once and nothing
\* is enqueued on it after it was closed: once the queue has overflowed while
\* the session is still registered, no later or concurrent sendMessage call
\* runs on the closed queue (it would send on it or close it again, and
\* either panics the daemon)
C32_QueueClosedOnceNoSendAfter ==
  \A d \in Dispatches : ~SendsOnClosedQueue(d)

\* sendToolCommand has returned the request id with a nil error: the dispatch
\* is in the select that waits for the response or the 30s timer
ReturnedRequestID(d) == dpc[d] = "waiting"
\* the tool_request frame of dispatch d was placed on its session's queue
Enqueued(d) ==
  \E i \in 1..Len(enq[dconn[d]]) : enq[dconn[d]][i] = RequestFrame(d)

\* C33: sendToolCommand returns a request id without error only if the
\* tool_request frame was placed on the session's outbound queue; when the
\* frame is discarded because the queue is full, the dispatch fails with an
\* error instead of entering the wait for the 30s timeout
C33_ReturnsIdOnlyIfEnqueued ==
  \A d \in Dispatches : ReturnedRequestID(d) => Enqueued(d)

(***************************************************************************)
(* tool_response frames and the (tool, command) pair of their request.     *)
(***************************************************************************)
\* the pair sendTextEditor*Command passes to sendToolCommand
PairOf(d) == <<"text_editor", CommandOf(d)>>

\* a tool_response frame as readPump saw it: id, tool and command of the
\* frame, and whether the id was in the pending table when it was read
ResponseRead(id, k) == [id |-> id, pair |-> k, pending |-> LookupPending(id) # NoChan]

\* readPump, case "tool_response", with the frame recorded
readToolResponsePair(s, id, k) ==
  /\ readToolResponse(s, id, k[1], k[2], SandboxResult(id))
  /\ Logged(s, ResponseRead(id, k))

NextPairs ==
  \/ /\ \/ \E d \in FirstCaller : sendToolCommand(d)
        \/ \E d \in FirstCaller : sendToClient(d)
        \/ \E d \in FirstCaller : sendMessage(d)
        \/ \E d \in FirstCaller : rollback(d)
        \/ \E d \in FirstCaller : closeOnError(d)
        \/ \E d \in FirstCaller : receiveResponse(d)
        \/ \E d \in FirstCaller : timeout(d)
        \/ \E d \in FirstCaller : cleanupDelete(d)
        \/ \E d \in FirstCaller : cleanupClose(d)
        \/ \E s \in OneSession : HandleWebSocket(s)
        \/ \E s \in OneSession : readHandshake(s)
        \/ \E s \in OneSession : handlerSend(s)
        \/ \E s \in OneSession : readPumpExit(s)
        \/ \E s \in OneSession : writePumpWrite(s)
     /\ UNCHANGED frameVars
  \/ \E s \in OneSession, d \in FirstCaller, k \in FrameKinds :
       readToolResponsePair(s, RequestID(d), k)

SpecPairs ==
  Init
  /\ [][NextPairs
          /\ UNCHANGED <<chatVars, wireVars, regVars, editorVars,
                         codecVars, timerVars>>]_vars

\* a frame with the id and the pair of dispatch d was read while d was pending
MatchingRead(d) ==
  \E s \in Sessions : \E i \in 1..Len(rlog[s]) :
     rlog[s][i] = [id |-> RequestID(d), pair |-> PairOf(d), pending |-> TRUE]
\* a frame with the id of d and another pair, or none, was read while d was
\* pending
WrongPairRead(d) ==
  \E s \in Sessions : \E i \in 1..Len(rlog[s]) :
     /\ rlog[s][i].id = RequestID(d)
     /\ rlog[s][i].pair # PairOf(d)
     /\ rlog[s][i].pending

\* C34: a tool_response is delivered to a waiting dispatch only if the
\* (tool, command) pair of the frame equals the pair the request was issued
\* with; a response with the id of a pending request and a different or
\* missing tool or command is discarded: the entry stays, nothing is handed
\* to the sink, and a dispatch that got no other response ends with the
\* timeout error and no value
C34_DeliveredOnlyForRequestPair ==
  /\ [](\A s \in Sessions :
          hpc[s] # "idle" =>
             LET f == rlog[s][Len(rlog[s])] IN
               /\ hchan[s] \in Dispatches
               /\ f.id = RequestID(hchan[s])
               /\ f.pair = PairOf(hchan[s]))
  /\ [](\A d \in Dispatches : GotResponse(d) => MatchingRead(d))
  /\ [](\A d \in Dispatches :
          (dpc[d] = "done" /\ ~MatchingRead(d) /\ ~NotConnected(d)) =>
             /\ derr[d] = "request timeout"
             /\ dresult[d] = NoValue)
  /\ [][\A s \in Sessions, d \in Dispatches, k \in FrameKinds :
          (/\ k # PairOf(d)
           /\ LookupPending(RequestID(d)) = d
           /\ readToolResponse(s, RequestID(d), k[1], k[2],
                               SandboxResult(RequestID(d))))
            => UNCHANGED rpcVars]_vars

\* C34 witness: the sandbox's internal-error reply (no tool, no command) and
\* a reply naming another command were read for the pending request, and the
\* dispatch has returned the timeout error
C34_Witness ==
  \E d \in Dispatches, s \in Sessions :
     /\ TimedOut(d)
     /\ ~MatchingRead(d)
     /\ \E i, j \in 1..Len(rlog[s]) :
          /\ rlog[s][i] = [id |-> RequestID(d), pair |-> <<"", "">>, pending |-> TRUE]
          /\ rlog[s][j].id = RequestID(d)
          /\ rlog[s][j].pair \notin {<<"", "">>, PairOf(d)}
          /\ rlog[s][j].pending

(***************************************************************************)
(* ToolUse and ToolResult blocks in the provider history.                  *)
(***************************************************************************)
\* the ToolResult blocks with this ToolUse id: message and place in it
ResultPlaces(id) ==
  UNION {{<<j, a>> : a \in {a \in 1..Len(msgs[j].results) :
                              msgs[j].results[a].id = id}} :
         j \in 1..Len(msgs)}

\* C35: after a turn in which the model requested several tools, the history
\* sent on the next provider call contains exactly one ToolResult block per
\* ToolUse id, placed in the user message that directly follows that
\* ToolUse's assistant message; no ToolResult is repeated in a later message
C35_OneToolResultPerToolUse ==
  cpc = "loop" =>
    \A i \in ToolUsePositions :
       /\ i < Len(msgs)
       /\ msgs[i + 1].type = "tool_result"
       /\ Cardinality(ResultPlaces(msgs[i].id)) = 1
       /\ \A pl \in ResultPlaces(msgs[i].id) : pl[1] = i + 1

\* the loop over tool-use blocks the daemon cannot hand to the sandbox: an
\* unknown tool name, an unknown command, input that does not parse or has
\* no command; and one block it can
InputBlocks ==
  {<<EditorTool, "view">>, <<EditorTool, "unparsable">>,
   <<EditorTool, "nocommand">>, <<EditorTool, "unknown_command">>,
   <<"other_tool", "view">>}
InputOutcomes == {"ok"}
NextChatInputs == NextChatOver(LoopRequests, InputBlocks, InputOutcomes)

SpecChatInputs ==
  Init
  /\ [][NextChatInputs
          /\ UNCHANGED <<rpcVars, wireVars, regVars, editorVars, codecVars,
                         frameVars, timerVars>>]_vars

\* the ToolResult blocks with this id among the first n messages of the
\* history, at a position after message i
ResultsAfter(id, i, n) ==
  {pl \in ResultPlaces(id) : i < pl[1] /\ pl[1] <= n}

\* C36: before every provider call after the first, each ToolUse id in the
\* history is followed by at least one ToolResult with that id, also for
\* tool-use blocks with an unknown tool name, an unknown command or
\* unparsable input
C36_EveryToolUseAnswered ==
  \A k \in 2..Len(calls) :
     \A i \in 1..calls[k].hist :
        msgs[i].type = "tool_use" =>
           ResultsAfter(msgs[i].id, i, calls[k].hist) # {}

\* C36 witness: the second provider call was opened on a history with three
\* ToolUse blocks, none of which reached the controller: two answered with
\* an empty result (unknown tool or command), one with the parse error
C36_Witness ==
  /\ Len(calls) = 2
  /\ invocations = << >>
  /\ Cardinality({i \in 1..calls[2].hist : msgs[i].type = "tool_use"}) = 3
  /\ \E r \in HistoryResults : r.content = NoResponse
  /\ \E r \in HistoryResults :
        r.content.error = "Failed to parse text editor input"

\* tool-use blocks of the current turn whose raw input does not parse or has
\* no command
NoCommandBlocks ==
  {i \in ToolUseBlocks : /\ message[i].name = EditorTool
                         /\ message[i].input \in {"unparsable", "nocommand"}}
\* the error text the daemon answers such an input with
InputErrorText(input) ==
  IF input = "unparsable" THEN "Failed to parse text editor input"
  ELSE "Error: Missing required 'command' field"
\* the ToolResult blocks of the current turn with this id
TurnResults(id) ==
  {a \in 1..Len(toolResults) : toolResults[a].id = id}

\* C37: a ToolUse whose input cannot be parsed or has no command is never
\* sent to the sandbox: the controller is not invoked for it and no
\* requesting event is written; once the block is handled its ToolResult
\* carries the error text and is_error = true
C37_BadInputAnsweredLocally ==
  cpc \in {"dispatch", "loop", "done"} =>
    \A i \in NoCommandBlocks :
       LET b == message[i] IN
         /\ InvocationsOf(b.id) = {}
         /\ ToolCallEvents("requesting", b.id) = {}
         /\ i < bi =>
              /\ Cardinality(TurnResults(b.id)) = 1
              /\ \A a \in TurnResults(b.id) :
                    /\ toolResults[a].isError
                    /\ toolResults[a].content.error = InputErrorText(b.input)

\* C37 witness: a turn with an unparsable input, an input without command
\* and a view has been handled: only the view reached the controller
C37_Witness ==
  /\ cpc = "loop"
  /\ Len(message) = 3
  /\ \E i, j \in NoCommandBlocks : message[i].input # message[j].input
  /\ Len(invocations) = 1
  /\ Len(toolResults) = 3

(***************************************************************************)
(* tool_response frames and the session they arrive on.                    *)
(***************************************************************************)
\* what the registry says about a session: it has sent no handshake, it is
\* the registered one, another session has replaced it, or nothing is
\* registered any more
SessionStatus(s) ==
  IF sclient[s] = "" THEN "no_handshake"
  ELSE IF connections = s THEN "registered"
  ELSE IF connections = NoSession THEN "unregistered"
  ELSE "superseded"

\* a tool_response frame as readPump saw it: its id, the status of the
\* session it arrived on, and whether the id was in the pending table
SessionRead(s, id) ==
  [id |-> id, status |-> SessionStatus(s), pending |-> LookupPending(id) # NoChan]

\* readPump, case "tool_response": the sandbox's reply to dispatch d arrives
\* on session s; the replies that find their id pending are recorded
readToolResponseOn(s, d) ==
  /\ readToolResponse(s, RequestID(d), PairOf(d)[1], PairOf(d)[2],
                      SandboxResult(RequestID(d)))
  /\ IF LookupPending(RequestID(d)) # NoChan
       THEN Logged(s, SessionRead(s, RequestID(d)))
       ELSE UNCHANGED rlog

NextAnySession ==
  \/ /\ \/ \E d \in FirstCaller : sendToolCommand(d)
        \/ \E d \in FirstCaller : sendToClient(d)
        \/ \E d \in FirstCaller : sendMessage(d)
        \/ \E d \in FirstCaller : rollback(d)
        \/ \E d \in FirstCaller : closeOnError(d)
        \/ \E d \in FirstCaller : receiveResponse(d)
        \/ \E d \in FirstCaller : timeout(d)
        \/ \E d \in FirstCaller : cleanupDelete(d)
        \/ \E d \in FirstCaller : cleanupClose(d)
        \/ \E s \in Sessions : HandleWebSocket(s)
        \/ \E s \in Sessions : readHandshake(s)
        \/ \E s \in Sessions : handlerSend(s)
        \/ \E s \in Sessions : readPumpExit(s)
        \/ \E s \in Sessions : writePumpWrite(s)
     /\ UNCHANGED frameVars
  \/ \E s \in Sessions, d \in FirstCaller : readToolResponseOn(s, d)

SpecAnySession ==
  Init
  /\ [][NextAnySession
          /\ UNCHANGED <<chatVars, wireVars, regVars, editorVars,
                         codecVars, timerVars>>]_vars

\* the reply to a pending dispatch d was read on a session of this status
ReadOn(d, status) ==
  \E s \in Sessions : \E i \in 1..Len(rlog[s]) :
     rlog[s][i] = [id |-> RequestID(d), status |-> status, pending |-> TRUE]

\* C38: responses are correlated by request id alone, independent of the
\* session: a tool_response carrying a pending id resolves that request
\* whichever session it arrives on, including a superseded session and a
\* session that has not sent a handshake; the handler takes the sink
\* of that id and the dispatch returns the decoded result of the frame
C38_CorrelatedByIdOnAnySession ==
  /\ [][\A s \in Sessions, d \in Dispatches :
          (/\ LookupPending(RequestID(d)) = d
           /\ readToolResponse(s, RequestID(d), PairOf(d)[1], PairOf(d)[2],
                               SandboxResult(RequestID(d))))
            => /\ hpc'[s] = "send"
               /\ hchan'[s] = d
               /\ hval'[s] = DecodeOutput(SandboxResult(RequestID(d)))]_vars
  /\ [](\A d \in Dispatches :
          GotResponse(d) =>
             dresult[d] = DecodeOutput(SandboxResult(RequestID(d))))

\* C38 witness: a dispatch has returned its value; its reply was read, while
\* the request was pending, on a session that had sent no handshake and on a
\* superseded session, and never on the registered session
C38_Witness ==
  \E d \in Dispatches :
     /\ dpc[d] = "done" /\ GotResponse(d)
     /\ dresult[d] = DecodeOutput(SandboxResult(RequestID(d)))
     /\ ReadOn(d, "no_handshake")
     /\ ReadOn(d, "superseded")
     /\ ~ReadOn(d, "registered")
====
